---- MODULE Spec2Model ----
(***************************************************************************)
(* Model of the ocean-go condition-aggregation and rule-evaluation engine: *)
(* the shared rule primitives, the four activity evaluators, the tides     *)
(* provider's extraction of extrema, the orchestration service and the     *)
(* response cache of the status handler.                                   *)
(*                                                                         *)
(* Units.  Wind speed is in hundredths of m/s, rain in hundredths of mm,   *)
(* cloudiness in percent, tide heights in millimetres, all times in        *)
(* minutes.  The factors 0.7, 0.6 and 0.5 of the rules are applied as      *)
(* exact rationals (w*10 <= m*7), not as IEEE doubles.                     *)
(***************************************************************************)
EXTENDS Integers, Sequences, FiniteSets, TLC

VARIABLES
  now,         \* rules: the instant read by new Date() / Date.now()
  weather,     \* rules: RuleContext.weather
  tides,       \* rules: RuleContext.tides
  hourly,      \* rules: RuleContext.hourlyForecast
  thresholds,  \* rules: RuleContext.thresholds
  activity,    \* rules: the evaluator that ran last ("none" before any)
  evals,       \* rules: the primitive evaluations of the last run
  rec,         \* rules: the ActivityRecommendation of the last run
  upstream,    \* tides provider: the answer of the upstream tides source
  tidesResult, \* tides provider: the TidesProviderResult of fetchTides
  wUpstream,   \* weather provider: the answer of the upstream weather source
  weatherResult, \* weather provider: the WeatherProviderResult of fetchWeather
  statusResp,  \* service: the settled promise of getOceanStatus
  cache,       \* handler: the module-level Map from region id to CacheEntry
  pending,     \* handler: per client, the invocation of handleStatusRequest
  reply,       \* handler: per client, the Response of that invocation
  elapsed,     \* timing: seconds since the two upstream calls were issued
  wDelay,      \* timing: seconds the weather upstream takes to answer
  tDelay,      \* timing: seconds the tides upstream takes to answer
  orchestrations, \* handler: getOceanStatus calls started so far
  windowArgs,  \* window: startHours and maxHours passed to calculateWindow
  windowResult, \* window: <<>> before the call, then <<its return value>>
  selectedRegion, \* client: App's selectedRegion state (the region id)
  appData,     \* client: App's data state, <<>> for null
  isLoading,   \* client: App's isLoading state
  appError,    \* client: App's error state, <<>> for null
  isUsingMockData, \* client: App's isUsingMockData state
  inFlight,    \* client: the calls of getActivityRecommendations not yet settled
  fetchesStarted, \* client: calls of fetchRecommendations so far
  hourStatus,  \* client: the last result of getActivityStatusForHour
  callStarted, \* handler: per client, the instant its getOceanStatus call began
  entryStarted \* handler: per key, the instant the call behind its entry began

rulesVars == <<now, weather, tides, hourly, thresholds, activity, evals, rec>>

tidesVars == <<upstream, tidesResult>>

weatherVars == <<wUpstream, weatherResult>>

serviceVars == <<statusResp>>

handlerVars == <<cache, pending, reply, orchestrations, callStarted, entryStarted>>

timingVars == <<elapsed, wDelay, tDelay>>

windowVars == <<windowArgs, windowResult>>

clientVars == <<selectedRegion, appData, isLoading, appError, isUsingMockData,
                inFlight, fetchesStarted, hourStatus>>

vars == <<now, weather, tides, hourly, thresholds, activity, evals, rec,
          upstream, tidesResult, wUpstream, weatherResult, statusResp,
          cache, pending, reply, elapsed, wDelay, tDelay, orchestrations,
          windowArgs, windowResult, selectedRegion, appData, isLoading,
          appError, isUsingMockData, inFlight, fetchesStarted, hourStatus,
          callStarted, entryStarted>>

----------------------------------------------------------------------------
(* Bounds *)

MaxTides == 3

\* Longest dense height series the upstream tides source returns.
MaxSamples == 8

\* Concurrent callers of the status handler.
NumClients == 2

\* Last instant at which the clock of the status handler still advances.
MaxClock == 11

\* Seconds after which the time since the upstream calls is no longer
\* counted.
MaxElapsed == 17

\* Orchestration calls after which the status handler takes no request.
MaxCalls == 3

\* Longest hourly forecast handed to calculateWindow.
MaxForecast == 5

\* The number of fetches the client starts in one behaviour.
MaxFetches == 4

----------------------------------------------------------------------------
(* JavaScript values *)

\* A numeric field that the payload does not carry (undefined).
Undefined == 0 - 1

\* The TypeError raised by undefined.toFixed(1).
TypeError == 0 - 2

None == [status |-> "none"]

\* Array.prototype.find: the first element satisfying P, as <<e>>, or <<>>.
Find(s, P(_)) ==
  LET idx == {i \in 1..Len(s) : P(s[i])}
  IN  IF idx = {} THEN <<>>
      ELSE <<s[CHOOSE i \in idx : \A j \in idx : i <= j]>>

\* Number.prototype.toFixed(1) of a wind speed: hundredths to tenths.
ToFixed1(w) == IF w = Undefined THEN TypeError ELSE (w + 5) \div 10

\* (windSpeed * 3.6).toFixed(1): hundredths of m/s to tenths of km/h.
WindKmh(w) == IF w = Undefined THEN TypeError ELSE (w * 36 + 50) \div 100

\* Variant: truncation instead of rounding.
RoundHoursFloor(d) == d \div 60

\* Math.round of a duration in minutes expressed in hours.
RoundHours(d) == (d + 30) \div 60

\* a || b for numbers
OrDefault(a, b) == IF a = 0 \/ a = Undefined THEN b ELSE a

----------------------------------------------------------------------------
(* Region configuration: the per-activity thresholds, identical in the     *)
(* four region configs.                                                    *)

Activities == {"snorkeling", "kayaking", "sup", "fishing"}

regionThresholds ==
  [snorkeling |-> [maxWindSpeed |-> 600, maxCloudiness |-> 40,
                   maxRain |-> 50, preferredTide |-> "low"],
   kayaking   |-> [maxWindSpeed |-> 1000, maxCloudiness |-> 70,
                   maxRain |-> 200, preferredTide |-> "null"],
   sup        |-> [maxWindSpeed |-> 800, maxCloudiness |-> 60,
                   maxRain |-> 100, preferredTide |-> "null"],
   fishing    |-> [maxWindSpeed |-> 1200, maxCloudiness |-> 80,
                   maxRain |-> 500, preferredTide |-> "high"]]

----------------------------------------------------------------------------
(* BaseRules *)

\* Variant: the upper breakpoint compared strictly.
evaluateWindStrict(windSpeed, maxWindSpeed) ==
  IF windSpeed # Undefined /\ windSpeed * 10 <= maxWindSpeed * 7 THEN "good"
  ELSE IF windSpeed # Undefined /\ windSpeed < maxWindSpeed THEN "caution"
  ELSE "bad"

evaluateWind(windSpeed, maxWindSpeed) ==
  IF windSpeed # Undefined /\ windSpeed * 10 <= maxWindSpeed * 7 THEN "good"
  ELSE IF windSpeed # Undefined /\ windSpeed <= maxWindSpeed THEN "caution"
  ELSE "bad"

evaluateCloudiness(cloudiness, maxCloudiness) ==
  IF cloudiness # Undefined /\ cloudiness * 10 <= maxCloudiness * 6 THEN "good"
  ELSE IF cloudiness # Undefined /\ cloudiness <= maxCloudiness THEN "caution"
  ELSE "bad"

\* Variant: caution up to the full maximum.
evaluateRainFullMax(rain, maxRain) ==
  IF rain = 0 THEN "good"
  ELSE IF rain <= maxRain THEN "caution"
  ELSE "bad"

evaluateRain(rain, maxRain) ==
  IF rain = 0 THEN "good"
  ELSE IF rain * 2 <= maxRain THEN "caution"
  ELSE "bad"

\* The tide the evaluator treats as current: the first list entry whose
\* time is at or before now and less than three hours old, of either type.
currentTideOf(currentTides, t) ==
  Find(currentTides, LAMBDA tide : tide.time <= t /\ tide.time > t - 3 * 60)

nextTideOfType(currentTides, type, t) ==
  Find(currentTides, LAMBDA tide : tide.type = type /\ tide.time > t)

evaluateTide(currentTides, preferredTide, t) ==
  IF preferredTide = "null" THEN [status |-> "good", nextPreferredTime |-> <<>>]
  ELSE
    LET nextPreferredTide == nextTideOfType(currentTides, preferredTide, t)
        currentTide == currentTideOf(currentTides, t)
        nextTime == IF nextPreferredTide = <<>> THEN <<>>
                    ELSE <<nextPreferredTide[1].time>>
    IN  IF currentTide # <<>> /\ currentTide[1].type = preferredTide
          THEN [status |-> "good", nextPreferredTime |-> nextTime]
        ELSE IF nextPreferredTide # <<>>
          THEN IF nextPreferredTide[1].time - t <= 2 * 60
                 THEN [status |-> "caution", nextPreferredTime |-> nextTime]
                 ELSE [status |-> "bad", nextPreferredTime |-> nextTime]
        ELSE [status |-> "caution", nextPreferredTime |-> <<>>]

RECURSIVE goodHoursFrom(_, _, _, _)
\* The loop of calculateWindow: consecutive non-bad hours from index i
\* (1-based) up to and excluding index stop.
goodHoursFrom(hourlyForecast, th, i, stop) ==
  IF i >= stop THEN 0
  ELSE
    LET forecast == hourlyForecast[i]
        wind == evaluateWind(forecast.windSpeed, OrDefault(th.maxWindSpeed, 1000))
        clouds == evaluateCloudiness(forecast.cloudiness, OrDefault(th.maxCloudiness, 100))
        rain == evaluateRain(forecast.rain, OrDefault(th.maxRain, 500))
    IN  IF wind # "bad" /\ clouds # "bad" /\ rain # "bad"
          THEN 1 + goodHoursFrom(hourlyForecast, th, i + 1, stop)
          ELSE 0

Min(a, b) == IF a <= b THEN a ELSE b

\* Variant: a window is reported from five hours on.
calculateWindowFromFive(hourlyForecast, th, startHours, maxHours) ==
  IF Len(hourlyForecast) = 0 THEN <<>>
  ELSE
    LET stop == Min(startHours + maxHours, Len(hourlyForecast)) + 1
        goodHours == goodHoursFrom(hourlyForecast, th, startHours + 1, stop)
    IN  IF goodHours > 4 THEN <<goodHours, goodHours + 2>> ELSE <<>>

\* The window is <<lo, hi>> for "Next lo-hi hours", <<>> for undefined.
calculateWindow(hourlyForecast, th, startHours, maxHours) ==
  IF Len(hourlyForecast) = 0 THEN <<>>
  ELSE
    LET stop == Min(startHours + maxHours, Len(hourlyForecast)) + 1
        goodHours == goodHoursFrom(hourlyForecast, th, startHours + 1, stop)
    IN  IF goodHours >= 4 THEN <<goodHours, goodHours + 2>> ELSE <<>>

\* window || (finalStatus === 'good' ? fallback : undefined)
windowOr(window, finalStatus, fallback) ==
  IF window # <<>> THEN window
  ELSE IF finalStatus = "good" THEN fallback ELSE <<>>

Reason(tpl, args) == [tpl |-> tpl, args |-> args]

----------------------------------------------------------------------------
(* Activity evaluators.  A context is a RuleContext; t is the instant the  *)
(* evaluator reads from the clock.  A reason is the template chosen and    *)
(* the numbers formatted into it.                                          *)

windEvalOf(context) ==
  evaluateWind(context.weather.windSpeed, context.thresholds.maxWindSpeed)

cloudsEvalOf(context) ==
  evaluateCloudiness(context.weather.cloudiness, context.thresholds.maxCloudiness)

rainEvalOf(context) ==
  evaluateRain(context.weather.rain, context.thresholds.maxRain)

tideEvalOf(context, t) ==
  evaluateTide(context.tides, context.thresholds.preferredTide, t)

\* Variant: BaseRules.combineStatuses over wind, clouds and rain.
snorkelingFinalStatusCombined(context, t) ==
  LET all == {windEvalOf(context), cloudsEvalOf(context), rainEvalOf(context)}
  IN  IF "bad" \in all THEN "bad"
      ELSE IF "caution" \in all THEN "caution"
      ELSE "good"

snorkelingFinalStatus(context, t) ==
  LET windEval == windEvalOf(context)
      cloudsEval == cloudsEvalOf(context)
      rainEval == rainEvalOf(context)
      tideEval == tideEvalOf(context, t)
      weatherStatus ==
        IF windEval = "bad" THEN "bad"
        ELSE IF windEval = "caution"
          THEN IF rainEval = "bad" THEN "bad" ELSE "caution"
        ELSE IF rainEval = "bad" THEN "caution"
        ELSE IF cloudsEval = "bad" THEN "caution"
        ELSE "good"
  IN  IF weatherStatus = "good" /\ tideEval.status = "bad"
        THEN "caution" ELSE weatherStatus

snorkelingReason(context, t, finalStatus) ==
  LET w == context.weather
      windEval == windEvalOf(context)
      cloudsEval == cloudsEvalOf(context)
      rainEval == rainEvalOf(context)
      tideEval == tideEvalOf(context, t)
  IN  IF finalStatus = "good"
        THEN IF tideEval.status = "good"
               THEN IF cloudsEval = "good"
                      THEN Reason("Perfect conditions for snorkeling", <<>>)
                      ELSE Reason("Excellent conditions for snorkeling, though skies are cloudy", <<>>)
               ELSE Reason("Good conditions for snorkeling", <<>>)
      ELSE IF finalStatus = "caution"
        THEN IF windEval = "caution"
               THEN Reason("Moderate wind will create some surface chop", <<ToFixed1(w.windSpeed)>>)
             ELSE IF windEval = "good" /\ cloudsEval = "bad"
               THEN Reason("Sea is calm, cloudy skies reduce light", <<>>)
             ELSE IF rainEval = "bad"
               THEN Reason("Heavy rain expected, but sea is calm (snorkeling)", <<>>)
             ELSE IF tideEval.status = "bad"
               THEN Reason("Conditions are good, but low tide is coming soon", <<>>)
             ELSE Reason("Conditions are acceptable for snorkeling", <<>>)
      ELSE IF windEval = "bad"
        THEN Reason("Wind is too strong for safe snorkeling", <<ToFixed1(w.windSpeed)>>)
      ELSE IF rainEval = "bad"
        THEN Reason("Heavy rain expected. Conditions will be unsafe", <<>>)
      ELSE Reason("Poor conditions for snorkeling", <<>>)

evaluateSnorkeling(context, t) ==
  LET finalStatus == snorkelingFinalStatus(context, t)
      window == calculateWindow(context.hourlyForecast, context.thresholds, 0, 6)
  IN  [status |-> finalStatus,
       reason |-> snorkelingReason(context, t, finalStatus),
       window |-> windowOr(window, finalStatus, <<4, 6>>)]

\* Variant: cloudiness consulted like the other factors.
kayakingFinalStatusClouds(context) ==
  LET all == {windEvalOf(context), cloudsEvalOf(context), rainEvalOf(context)}
  IN  IF "bad" \in all THEN "bad"
      ELSE IF "caution" \in all THEN "caution"
      ELSE "good"

kayakingFinalStatus(context) ==
  LET windEval == windEvalOf(context)
      rainEval == rainEvalOf(context)
  IN  IF windEval = "bad" THEN "bad"
      ELSE IF windEval = "caution"
        THEN IF rainEval = "bad" THEN "bad" ELSE "caution"
      ELSE IF rainEval = "bad" THEN "caution"
      ELSE "good"

kayakingReason(context, finalStatus) ==
  LET w == context.weather
      windEval == windEvalOf(context)
      rainEval == rainEvalOf(context)
  IN  IF finalStatus = "good"
        THEN IF windEval = "good" /\ rainEval = "good"
               THEN Reason("Excellent conditions for kayaking", <<>>)
               ELSE Reason("Good conditions for kayaking", <<>>)
      ELSE IF finalStatus = "caution"
        THEN IF windEval = "caution"
               THEN Reason("Moderate wind. Experienced kayakers should be fine", <<ToFixed1(w.windSpeed)>>)
             ELSE IF rainEval = "bad"
               THEN Reason("Heavy rain expected, but sea is calm (kayaking)", <<>>)
             ELSE Reason("Conditions are acceptable for kayaking", <<>>)
      ELSE Reason("Wind is too strong for safe kayaking", <<ToFixed1(w.windSpeed)>>)

evaluateKayaking(context, t) ==
  LET finalStatus == kayakingFinalStatus(context)
      window == calculateWindow(context.hourlyForecast, context.thresholds, 0, 8)
  IN  [status |-> finalStatus,
       reason |-> kayakingReason(context, finalStatus),
       window |-> windowOr(window, finalStatus, <<6, 8>>)]

supFinalStatus(context) ==
  LET windEval == windEvalOf(context)
      rainEval == rainEvalOf(context)
  IN  IF windEval = "bad" THEN "bad"
      ELSE IF windEval = "caution"
        THEN IF rainEval = "bad" THEN "bad" ELSE "caution"
      ELSE IF rainEval = "bad" THEN "caution"
      ELSE "good"

supReason(context, finalStatus) ==
  LET w == context.weather
      windEval == windEvalOf(context)
      rainEval == rainEvalOf(context)
  IN  IF finalStatus = "good"
        THEN IF windEval = "good"
               THEN Reason("Perfect conditions for SUP", <<>>)
               ELSE Reason("Good conditions for SUP", <<>>)
      ELSE IF finalStatus = "caution"
        THEN IF windEval = "caution"
               THEN Reason("Moderate wind. Good for experienced paddlers", <<ToFixed1(w.windSpeed)>>)
             ELSE IF rainEval = "bad"
               THEN Reason("Heavy rain expected, but wind is calm (SUP)", <<>>)
             ELSE Reason("Conditions are acceptable for SUP", <<>>)
      ELSE Reason("Too windy for safe SUP", <<ToFixed1(w.windSpeed)>>)

evaluateSUP(context, t) ==
  LET finalStatus == supFinalStatus(context)
      window == calculateWindow(context.hourlyForecast, context.thresholds, 0, 5)
  IN  [status |-> finalStatus,
       reason |-> supReason(context, finalStatus),
       window |-> windowOr(window, finalStatus, <<4, 5>>)]

\* Variant: wind first, as in the other evaluators.
fishingFinalStatusWindFirst(context, t) ==
  LET windEval == windEvalOf(context)
      rainEval == rainEvalOf(context)
      tideEval == tideEvalOf(context, t)
  IN  IF windEval = "bad" THEN "bad"
      ELSE IF tideEval.status = "bad" \/ windEval = "caution" \/ rainEval = "bad"
        THEN "caution"
      ELSE "good"

fishingFinalStatus(context, t) ==
  LET windEval == windEvalOf(context)
      rainEval == rainEvalOf(context)
      tideEval == tideEvalOf(context, t)
  IN  IF tideEval.status = "good"
        THEN IF windEval = "bad" THEN "caution"
             ELSE IF rainEval = "bad" THEN "caution"
             ELSE "good"
      ELSE IF tideEval.status = "caution"
        THEN IF windEval = "bad" \/ rainEval = "bad" THEN "caution" ELSE "good"
      ELSE IF windEval = "bad" THEN "bad"
      ELSE IF windEval = "caution" \/ rainEval = "bad" THEN "caution"
      ELSE "caution"

\* Math.round((preferredTideTime - Date.now()) / 1h), 0 without a next
\* preferred tide.
fishingHoursUntil(context, t) ==
  LET th == context.thresholds
      nextHighTide == nextTideOfType(context.tides, "high", t)
      nextLowTide == nextTideOfType(context.tides, "low", t)
      preferredTideTime == IF th.preferredTide = "high" THEN nextHighTide ELSE nextLowTide
  IN  IF preferredTideTime # <<>>
        THEN RoundHours(preferredTideTime[1].time - t) ELSE 0

fishingReason(context, t, finalStatus) ==
  LET w == context.weather
      th == context.thresholds
      windEval == windEvalOf(context)
      rainEval == rainEvalOf(context)
      tideEval == tideEvalOf(context, t)
      nextHighTide == nextTideOfType(context.tides, "high", t)
      nextLowTide == nextTideOfType(context.tides, "low", t)
      preferredTideTime == IF th.preferredTide = "high" THEN nextHighTide ELSE nextLowTide
      tideType == IF th.preferredTide = "high" THEN "high tide" ELSE "low tide"
      hoursUntil == fishingHoursUntil(context, t)
      nextTideTime == IF preferredTideTime # <<>>
                        THEN <<preferredTideTime[1].time>> ELSE <<>>
  IN  IF finalStatus = "good"
        THEN IF tideEval.status = "good" \/ tideEval.status = "caution"
               THEN IF hoursUntil <= 2 /\ hoursUntil > 0
                      THEN IF tideType = "high tide"
                             THEN Reason("Excellent fishing conditions. High tide in N hours - peak feeding activity expected", <<hoursUntil>>)
                             ELSE Reason("Excellent fishing conditions. Low tide in N hours - peak feeding activity expected", <<hoursUntil>>)
                    ELSE IF tideEval.status = "good"
                      THEN Reason("Great fishing conditions. Active feeding times with favorable tide", <<>>)
                    ELSE Reason("Good fishing conditions. Tide timing is favorable", <<>>)
               ELSE Reason("Good fishing conditions. Calm weather", <<>>)
      ELSE IF finalStatus = "caution"
        THEN IF tideEval.status = "bad"
               THEN IF tideType = "high tide"
                      THEN Reason("Fishing is possible, but activity is typically better during high tide", nextTideTime)
                      ELSE Reason("Fishing is possible, but activity is typically better during low tide", nextTideTime)
             ELSE IF windEval = "caution" \/ windEval = "bad"
               THEN Reason("Fishing is possible, but wind may make casting challenging", <<ToFixed1(w.windSpeed)>>)
             ELSE IF rainEval = "bad"
               THEN Reason("Fishing is possible in heavy rain", <<>>)
             ELSE Reason("Fishing is possible, but conditions are moderate", <<>>)
      ELSE IF windEval = "bad" /\ tideEval.status = "bad"
        THEN Reason("Poor fishing conditions. Wind is too strong and tide timing is not ideal",
                    <<WindKmh(w.windSpeed), ToFixed1(w.windSpeed)>>)
      ELSE IF windEval = "bad"
        THEN Reason("Wind is too strong for comfortable fishing",
                    <<WindKmh(w.windSpeed), ToFixed1(w.windSpeed)>>)
      ELSE Reason("Poor fishing conditions", <<>>)

evaluateFishing(context, t) ==
  LET finalStatus == fishingFinalStatus(context, t)
      window == calculateWindow(context.hourlyForecast, context.thresholds, 0, 4)
  IN  [status |-> finalStatus,
       reason |-> fishingReason(context, t, finalStatus),
       window |-> windowOr(window, finalStatus, <<2, 3>>)]

evaluate(a, context, t) ==
  CASE a = "snorkeling" -> evaluateSnorkeling(context, t)
    [] a = "kayaking"   -> evaluateKayaking(context, t)
    [] a = "sup"        -> evaluateSUP(context, t)
    [] a = "fishing"    -> evaluateFishing(context, t)

\* The four primitive evaluations the evaluators start from.
primitiveEvals(context, t) ==
  [wind   |-> windEvalOf(context),
   clouds |-> cloudsEvalOf(context),
   rain   |-> rainEvalOf(context),
   tide   |-> tideEvalOf(context, t).status]

\* toFixed raised a TypeError while the reason was formatted.
Threw(r) == \E i \in DOMAIN r.reason.args : r.reason.args[i] = TypeError

----------------------------------------------------------------------------
(* TidesProvider.  Timestamps (dt, ISO strings, getTime()) are all carried *)
(* in minutes: the conversions between them are exact on whole seconds.    *)

RECURSIVE SumHeights(_, _)
SumHeights(heights, i) ==
  IF i > Len(heights) THEN 0 ELSE heights[i].height + SumHeights(heights, i + 1)

TideEvent(type, h) == [type |-> type, height |-> h.height, time |-> h.dt]

\* The event pushed for index i (1-based) by the 5-point scan, <<>> if none.
\* curr > avgHeight is compared as curr * n > sum.
fivePointAt(heights, i) ==
  LET curr == heights[i].height
      window == {heights[k].height : k \in (i - 2)..(i + 2)}
      n == Len(heights)
      sum == SumHeights(heights, 1)
  IN  IF (\A x \in window : x <= curr) /\ curr * n > sum /\ curr > 300
        THEN <<TideEvent("high", heights[i])>>
      ELSE IF (\A x \in window : x >= curr) /\ curr * n < sum /\ curr < 700
        THEN <<TideEvent("low", heights[i])>>
      ELSE <<>>

\* The event pushed for index i by the 3-point scan, <<>> if none.
threePointAt(heights, i) ==
  LET prev == heights[i - 1].height
      curr == heights[i].height
      next == heights[i + 1].height
  IN  IF curr > prev /\ curr > next /\ curr > 300
        THEN <<TideEvent("high", heights[i])>>
      ELSE IF curr < prev /\ curr < next /\ curr < 700
        THEN <<TideEvent("low", heights[i])>>
      ELSE <<>>

RECURSIVE fivePointScan(_, _)
fivePointScan(heights, i) ==
  IF i > Len(heights) - 2 THEN <<>>
  ELSE fivePointAt(heights, i) \o fivePointScan(heights, i + 1)

RECURSIVE threePointScan(_, _)
threePointScan(heights, i) ==
  IF i > Len(heights) - 1 THEN <<>>
  ELSE threePointAt(heights, i) \o threePointScan(heights, i + 1)

\* Extrema derived from a dense height series: the 5-point scan, replaced
\* by the 3-point scan when it finds fewer than 4 events.
deriveExtrema(heights) ==
  LET first == fivePointScan(heights, 3)
  IN  IF Len(first) < 4 THEN threePointScan(heights, 2) ELSE first

RECURSIVE insertByTime(_, _)
\* e inserted after the last element of the sorted s that is not later.
insertByTime(s, e) ==
  IF s = <<>> THEN <<e>>
  ELSE IF s[Len(s)].time <= e.time THEN Append(s, e)
  ELSE Append(insertByTime(SubSeq(s, 1, Len(s) - 1), e), s[Len(s)])

RECURSIVE sortByTime(_)
\* normalized.sort((a, b) => time(a) - time(b)), a stable sort.
sortByTime(s) ==
  IF s = <<>> THEN <<>>
  ELSE insertByTime(sortByTime(SubSeq(s, 1, Len(s) - 1)), s[Len(s)])

Abs(x) == IF x < 0 THEN 0 - x ELSE x

RECURSIVE dedupFrom(_, _, _)
\* Variant: an event compared with its predecessor in the sorted list.
dedupFromPrevious(normalized, i, deduplicated) ==
  LET RECURSIVE go(_, _)
      go(k, acc) ==
        IF k > Len(normalized) THEN acc
        ELSE IF k = 1 \/ Abs(normalized[k].time - normalized[k - 1].time) > 60
          THEN go(k + 1, Append(acc, normalized[k]))
        ELSE go(k + 1, acc)
  IN  go(i, deduplicated)

\* The deduplication loop from index i on, deduplicated being the events
\* kept so far.
dedupFrom(normalized, i, deduplicated) ==
  IF i > Len(normalized) THEN deduplicated
  ELSE
    LET tide == normalized[i]
        n == Len(deduplicated)
    IN  IF n = 0 \/ Abs(tide.time - deduplicated[n].time) > 60
          THEN dedupFrom(normalized, i + 1, Append(deduplicated, tide))
          ELSE dedupFrom(normalized, i + 1, deduplicated)

mapExtremes(extremes) ==
  [i \in 1..Len(extremes) |->
     [type |-> IF extremes[i].type = "High" THEN "high" ELSE "low",
      height |-> extremes[i].height, time |-> extremes[i].dt]]

mapPredictions(predictions) ==
  [i \in 1..Len(predictions) |->
     [type |-> IF predictions[i].type = "H" THEN "high" ELSE "low",
      height |-> predictions[i].v, time |-> predictions[i].t]]

\* The normalization precedence: extremes, then predictions, then heights.
normalize(rawData) ==
  IF Len(rawData.extremes) > 0 THEN mapExtremes(rawData.extremes)
  ELSE IF Len(rawData.predictions) > 0 THEN mapPredictions(rawData.predictions)
  ELSE IF Len(rawData.heights) > 0 THEN deriveExtrema(rawData.heights)
  ELSE <<>>

mapHeights(heights) ==
  [i \in 1..Len(heights) |-> [time |-> heights[i].dt, height |-> heights[i].height]]

\* The 48 hourly heights of getMockTides: 0.55 + 0.45 * sin(2 pi h / 12)
\* rounded to centimetres,
\* for h = hour % 12, one sample per hour from t on.
mockSine == <<550, 780, 940, 1000, 940, 780, 550, 320, 160, 100, 160, 320>>

mockHourlyHeights(t) ==
  [k \in 1..48 |-> [time |-> t + (k - 1) * 60, height |-> mockSine[((k - 1) % 12) + 1]]]

\* Variant: the series starts with an event one hour after t, the events
\* after it spaced as in getMockTides.
getMockTidesSoon(t, startIsHigh, r) ==
  LET isHigh(k) == IF k % 2 = 1 THEN ~startIsHigh ELSE startIsHigh
      all == [k \in 1..16 |->
                [type |-> IF isHigh(k) THEN "high" ELSE "low",
                 height |-> IF isHigh(k) THEN 700 + r * 500 ELSE 100 + r * 400,
                 time |-> t + 60 + (k - 1) * (330 + r * 60)]]
      futureTides == SelectSeq(all, LAMBDA tide : tide.time > t)
  IN  [data |-> IF Len(futureTides) > 0 THEN futureTides ELSE SubSeq(all, 1, 8),
       hourlyHeights |-> mockHourlyHeights(t),
       error |-> <<>>]

\* getMockTides at instant t.  startIsHigh is the first Math.random() draw;
\* r in {0, 1} stands for the later draws (0: the lower end of each range,
\* 1: its upper end), the same for all 16 events: 5.5h or 6.5h between
\* events, highs of 0.7m or 1.2m, lows of 0.1m or 0.5m.
getMockTides(t, startIsHigh, r) ==
  LET isHigh(k) == IF k % 2 = 1 THEN ~startIsHigh ELSE startIsHigh
      all == [k \in 1..16 |->
                [type |-> IF isHigh(k) THEN "high" ELSE "low",
                 height |-> IF isHigh(k) THEN 700 + r * 500 ELSE 100 + r * 400,
                 time |-> t + k * (330 + r * 60)]]
      futureTides == SelectSeq(all, LAMBDA tide : tide.time > t)
  IN  [data |-> IF Len(futureTides) > 0 THEN futureTides ELSE SubSeq(all, 1, 8),
       hourlyHeights |-> mockHourlyHeights(t),
       error |-> <<>>]

MockTides(t) == {getMockTides(t, b, r) : b \in BOOLEAN, r \in {0, 1}}

NoError == <<>>

ProviderError(provider, message) ==
  <<[provider |-> provider, message |-> message, fallbackUsed |-> TRUE]>>

\* A tides body: parses is false when response.json() rejects.
EmptyBody == [parses |-> TRUE, extremes |-> <<>>, predictions |-> <<>>, heights |-> <<>>]

\* The upstream answers on which fetch, the status check, response.json()
\* or the error check throws inside the try block.  kind is what the
\* upstream did ("error": a 2xx body with a top-level error string); a
\* 2xx answer "ok" is judged by its body.
tidesFetchThrows(up) ==
  \/ up.kind \in {"throw", "non2xx", "error"}
  \/ up.kind = "ok" /\ ~up.body.parses

\* The mock results a call can consume: getMockTides runs only without a
\* key and in the catch block, so a successful call draws nothing.
MocksConsumed(up, t) ==
  IF up.kind # "nokey" /\ ~tidesFetchThrows(up)
    THEN {getMockTides(t, TRUE, 0)} ELSE MockTides(t)

\* fetchTides for an upstream answer; mock is the result getMockTides would
\* give in the same call.
fetchTides(up, mock) ==
  IF up.kind = "nokey" THEN mock
  ELSE IF tidesFetchThrows(up)
    THEN [data |-> mock.data, hourlyHeights |-> mock.hourlyHeights,
          error |-> ProviderError("tides", up.kind)]
  ELSE [data |-> dedupFrom(sortByTime(normalize(up.body)), 1, <<>>),
        hourlyHeights |-> mapHeights(up.body.heights),
        error |-> NoError]

----------------------------------------------------------------------------
(* WeatherProvider.  A weather body is what response.json() yields:        *)
(* current is <<>> when the payload has no `current` object, a numeric     *)
(* field is Undefined when the payload omits it.                           *)

\* rawData.current.rain?.['1h'] || 0
rainOr0(rain) == IF rain = Undefined THEN 0 ELSE rain

\* The normalization throws: response.json() rejects, rawData.current is
\* undefined (TypeError) or a dt is missing (toISOString RangeError).
weatherNormalizeThrows(body) ==
  \/ ~body.parses
  \/ body.current = <<>>
  \/ body.current[1].dt = Undefined
  \/ \E i \in 1..Min(Len(body.hourly), 24) : body.hourly[i].dt = Undefined

weatherFetchThrows(up) ==
  \/ up.kind \in {"throw", "timeout", "non2xx"}
  \/ up.kind = "ok" /\ weatherNormalizeThrows(up.body)

normalizeWeather(body) ==
  LET current == body.current[1]
      n == Min(Len(body.hourly), 24)
  IN  [data |-> [windSpeed |-> current.wind_speed,
                 cloudiness |-> current.clouds,
                 rain |-> rainOr0(current.rain),
                 timestamp |-> current.dt],
       hourly |-> [i \in 1..n |->
                     [time |-> body.hourly[i].dt,
                      windSpeed |-> body.hourly[i].wind_speed,
                      rain |-> rainOr0(body.hourly[i].rain),
                      cloudiness |-> body.hourly[i].clouds]],
       error |-> <<>>]

\* 3 + sin(2 pi hour / 24) m/s for the sampled hours of the day.
mockBaseWind(hour) ==
  CASE hour = 0 -> 300
    [] hour = 6 -> 400
    [] hour = 15 -> 229

Max(a, b) == IF a >= b THEN a ELSE b

\* getMockWeather at instant t when the local hour of the day is hour.
\* r in {0, 1} stands for every Math.random() draw of the call (0: the lower
\* end of its range, 1: the upper end).  Only the fields the rules read are
\* carried.
getMockWeather(t, hour, r) ==
  LET baseWindSpeed == mockBaseWind(hour)
      baseCloudiness == 40 + r * 30
      baseRain == IF hour >= 14 /\ hour <= 18 THEN r * 49 ELSE 0
      forecastHour(i) == (hour + i) % 24
  IN  [data |-> [windSpeed |-> Max(50, baseWindSpeed),
                 cloudiness |-> Max(0, Min(100, baseCloudiness)),
                 rain |-> Max(0, baseRain),
                 timestamp |-> t],
       hourly |-> [k \in 1..24 |->
                     [time |-> t + (k - 1) * 60,
                      windSpeed |-> Max(50, baseWindSpeed + (2 * r - 1) * 50),
                      rain |-> IF forecastHour(k - 1) >= 14 /\ forecastHour(k - 1) <= 18
                                 THEN r * 29 ELSE 0,
                      cloudiness |-> Max(0, Min(100, baseCloudiness + r * 10 - 5))]],
       error |-> <<>>]

MockWeather(t) == {getMockWeather(t, hour, r) : hour \in {0, 6, 15}, r \in {0, 1}}

\* fetchWeather for an upstream answer; mock is the result getMockWeather
\* would give in the same call.
fetchWeather(up, mock) ==
  IF up.kind = "nokey" THEN mock
  ELSE IF weatherFetchThrows(up)
    THEN [data |-> mock.data, hourly |-> mock.hourly,
          error |-> ProviderError("weather", up.kind)]
  ELSE normalizeWeather(up.body)

WeatherMocksConsumed(up, t) ==
  IF up.kind # "nokey" /\ ~weatherFetchThrows(up)
    THEN {getMockWeather(t, 0, 0)} ELSE MockWeather(t)

NoWeatherBody == [parses |-> TRUE, current |-> <<>>, hourly |-> <<>>]

NoWeatherUpstream == [kind |-> "none", body |-> NoWeatherBody]

----------------------------------------------------------------------------
(* OceanStatusService *)

bayahibeConfig ==
  [id |-> "bayahibe-dominicus", name |-> "Bayahibe / Dominicus",
   thresholds |-> regionThresholds]

RECURSIVE closestFrom(_, _, _, _)
\* The reduce over hourlyHeights from index i on: the sample kept is
\* replaced only by a strictly closer one.
closestFrom(hourlyHeights, hourTime, i, closest) ==
  IF i > Len(hourlyHeights) THEN closest
  ELSE
    LET tide == hourlyHeights[i]
    IN  IF Abs(hourTime - tide.time) < Abs(hourTime - closest.time)
          THEN closestFrom(hourlyHeights, hourTime, i + 1, tide)
          ELSE closestFrom(hourlyHeights, hourTime, i + 1, closest)

\* Number(height.toFixed(2)): a height in millimetres rounded to whole
\* centimetres.
ToFixed2(height) == ((height + 5) \div 10) * 10

\* Variant: a sample exactly 30 minutes away is not attached.
mergeHourWithinStrict(hour, hourlyHeights) ==
  LET closestTide == closestFrom(hourlyHeights, hour.time, 2, hourlyHeights[1])
  IN  IF Abs(hour.time - closestTide.time) < 30
        THEN ("tideHeight" :> ToFixed2(closestTide.height)) @@ hour
        ELSE hour

mergeHour(hour, hourlyHeights) ==
  LET closestTide == closestFrom(hourlyHeights, hour.time, 2, hourlyHeights[1])
  IN  IF Abs(hour.time - closestTide.time) <= 30
        THEN ("tideHeight" :> ToFixed2(closestTide.height)) @@ hour
        ELSE hour

\* The loop of the second implementation from index i on: minDiff and
\* closestTide are replaced by a strictly smaller difference; closestTide
\* is <<>> for null and minDiff = Infinity.
RECURSIVE closestLoop(_, _, _, _)
closestLoop(hourlyHeights, hourTime, i, closestTide) ==
  IF i > Len(hourlyHeights) THEN closestTide
  ELSE
    LET tide == hourlyHeights[i]
        diff == Abs(hourTime - tide.time)
    IN  IF closestTide = <<>> \/ diff < Abs(hourTime - closestTide[1].time)
          THEN closestLoop(hourlyHeights, hourTime, i + 1, <<tide>>)
          ELSE closestLoop(hourlyHeights, hourTime, i + 1, closestTide)

mergeHourLoop(hour, hourlyHeights) ==
  LET closestTide == closestLoop(hourlyHeights, hour.time, 1, <<>>)
  IN  IF closestTide # <<>> /\ Abs(hour.time - closestTide[1].time) <= 30
        THEN ("tideHeight" :> ToFixed2(closestTide[1].height)) @@ hour
        ELSE hour

\* The merge of the loop-based implementation.
mergeHourlyForecastLoop(weatherHourly, hourlyHeights) ==
  IF Len(hourlyHeights) > 0
    THEN [i \in 1..Len(weatherHourly) |-> mergeHourLoop(weatherHourly[i], hourlyHeights)]
    ELSE weatherHourly

mergeHourlyForecast(weatherHourly, hourlyHeights) ==
  IF Len(hourlyHeights) > 0
    THEN [i \in 1..Len(weatherHourly) |-> mergeHour(weatherHourly[i], hourlyHeights)]
    ELSE weatherHourly

\* a ?? b for numbers
Coalesce(a, b) == IF a = Undefined THEN b ELSE a

\* Variant: the forecast point must be less than one hour away.
backfillWithinStrict(currentWeather, mergedHourlyForecast, t) ==
  IF currentWeather.windSpeed = 0 /\ Len(mergedHourlyForecast) > 0
    THEN LET firstForecast == mergedHourlyForecast[1]
         IN  IF firstForecast.windSpeed > 0 /\ Abs(t - firstForecast.time) < 60
               THEN [currentWeather EXCEPT !.windSpeed = firstForecast.windSpeed,
                                           !.cloudiness = Coalesce(firstForecast.cloudiness,
                                                                    currentWeather.cloudiness),
                                           !.rain = Coalesce(firstForecast.rain, currentWeather.rain)]
               ELSE currentWeather
    ELSE currentWeather

\* The zero-wind backfill of the current snapshot.
backfill(currentWeather, mergedHourlyForecast, t) ==
  IF currentWeather.windSpeed = 0 /\ Len(mergedHourlyForecast) > 0
    THEN LET firstForecast == mergedHourlyForecast[1]
         IN  IF firstForecast.windSpeed > 0 /\ Abs(t - firstForecast.time) <= 60
               THEN [currentWeather EXCEPT !.windSpeed = firstForecast.windSpeed,
                                           !.cloudiness = Coalesce(firstForecast.cloudiness,
                                                                    currentWeather.cloudiness),
                                           !.rain = Coalesce(firstForecast.rain, currentWeather.rain)]
               ELSE currentWeather
    ELSE currentWeather

\* The four recommendations, evaluated on the providers' results.
activitiesOf(regionConfig, wr, tr, t) ==
  [a \in Activities |->
     evaluate(a, [weather |-> wr.data, tides |-> tr.data,
                  hourlyForecast |-> wr.hourly,
                  thresholds |-> regionConfig.thresholds[a]], t)]

NoActivities == [a \in Activities |-> None]

Rejected ==
  [outcome |-> "rejected", region |-> "", timestamp |-> 0,
   activities |-> NoActivities, errorsPresent |-> FALSE, errors |-> <<>>]

\* Variant: the errors key is always written.
errorsKeyAlways(errors) == TRUE

\* ...(errors.length > 0 && { errors }): whether the response object gets
\* an errors key.
errorsKeyPresent(errors) == Len(errors) > 0

\* getOceanStatus after Promise.all has delivered both results; the promise
\* rejects when an evaluator throws.  errorsPresent tells whether the
\* response object has an errors key.
getOceanStatus(regionConfig, wr, tr, t) ==
  LET errors == wr.error \o tr.error
      activities == activitiesOf(regionConfig, wr, tr, t)
      currentTide == currentTideOf(tr.data, t)
      nextTide == Find(tr.data, LAMBDA tide : tide.time > t)
      mergedHourlyForecast == mergeHourlyForecast(wr.hourly, tr.hourlyHeights)
      currentWeather == backfill(wr.data, mergedHourlyForecast, t)
  IN  IF \E a \in Activities : Threw(activities[a]) THEN Rejected
      ELSE [outcome |-> "resolved",
            region |-> regionConfig.name,
            timestamp |-> t,
            activities |-> activities,
            conditions |-> [weather |-> currentWeather,
                            currentTide |-> currentTide,
                            nextTide |-> nextTide,
                            hourlyForecast |-> mergedHourlyForecast],
            hourlyForecast |-> mergedHourlyForecast,
            errorsPresent |-> errorsKeyPresent(errors),
            errors |-> errors]

----------------------------------------------------------------------------
(* The status handler and its response cache.  Times are in minutes.       *)

\* 10 * 60 * 1000 ms
CACHE_TTL == 10

Clients == 1..NumClients

\* The values of the `region` query parameter; "" also stands for a
\* missing parameter (null), which the handler treats alike.
RawRegionIds == {"", "bayahibe", "BAYAHIBE", "atlantis"}

\* String.prototype.toLowerCase on the sampled ids.
toLowerCase(regionId) == IF regionId = "BAYAHIBE" THEN "bayahibe" ELSE regionId

cabareteConfig ==
  [id |-> "cabarete", name |-> "Cabarete", thresholds |-> regionThresholds]

\* The lookup table of getRegionConfig, restricted to the regions whose
\* configuration is modelled.
regions ==
  [k \in {"bayahibe-dominicus", "bayahibe", "cabarete"} |->
     IF k = "cabarete" THEN cabareteConfig ELSE bayahibeConfig]

\* getRegionConfig: <<config>>, or <<>> when it throws "Unknown region".
getRegionConfig(regionId) ==
  IF toLowerCase(regionId) \in DOMAIN regions
    THEN <<regions[toLowerCase(regionId)]>> ELSE <<>>

\* Variant: an expired entry is reported absent but left in the map.
getCachedKeepExpired(c, regionId, t) ==
  IF c[regionId] = <<>> THEN [result |-> <<>>, cache |-> c]
  ELSE IF t - c[regionId][1].timestamp > CACHE_TTL
    THEN [result |-> <<>>, cache |-> c]
  ELSE [result |-> <<c[regionId][1].data>>, cache |-> c]

\* getCached on the map c at instant t: the value returned (<<>> for null)
\* and the map it leaves.
getCached(c, regionId, t) ==
  IF c[regionId] = <<>> THEN [result |-> <<>>, cache |-> c]
  ELSE IF t - c[regionId][1].timestamp > CACHE_TTL
    THEN [result |-> <<>>, cache |-> [c EXCEPT ![regionId] = <<>>]]
  ELSE [result |-> <<c[regionId][1].data>>, cache |-> c]

\* Variant: the first write of a key wins while its entry is in the map.
setCacheIfAbsent(c, regionId, data, t) ==
  IF c[regionId] # <<>> THEN c
  ELSE [c EXCEPT ![regionId] = <<[data |-> data, timestamp |-> t]>>]

setCache(c, regionId, data, t) ==
  [c EXCEPT ![regionId] = <<[data |-> data, timestamp |-> t]>>]

NoRequest == [state |-> "idle", regionId |-> ""]

Response(status, xCache, body) ==
  <<[status |-> status, xCache |-> xCache, body |-> body]>>

ErrorBody(error) == [error |-> error]

\* new OceanStatusService().getOceanStatus(regionConfig) at instant t for
\* the provider outcomes ups.
orchestrate(regionConfig, ups, t) ==
  getOceanStatus(regionConfig,
                 fetchWeather(ups[1], getMockWeather(t, 0, 0)),
                 fetchTides(ups[2], getMockTides(t, TRUE, 0)), t)



----------------------------------------------------------------------------
(* Client: the hourly rule of utils/activityRules.ts and the region list.  *)

\* The ids of data/regions.ts.
REGIONS == <<"bayahibe-dominicus", "punta-cana", "sosua", "cabarete">>

DEFAULT_REGION == REGIONS[1]

ACTIVITY_THRESHOLDS ==
  [snorkeling |-> [maxWindSpeed |-> 600, maxCloudiness |-> 40,
                   maxRain |-> 50, preferredTide |-> "low"],
   kayaking   |-> [maxWindSpeed |-> 1000, maxCloudiness |-> 70,
                   maxRain |-> 200, preferredTide |-> "null"],
   sup        |-> [maxWindSpeed |-> 800, maxCloudiness |-> 60,
                   maxRain |-> 100, preferredTide |-> "null"],
   fishing    |-> [maxWindSpeed |-> 1200, maxCloudiness |-> 80,
                   maxRain |-> 500, preferredTide |-> "high"]]

\* getActivityStatusForHour with its three module-local primitives.
getActivityStatusForHour(hour, activityType) ==
  LET th == ACTIVITY_THRESHOLDS[activityType]
      evalWind(windSpeed, maxWindSpeed) ==
        IF windSpeed * 10 <= maxWindSpeed * 7 THEN "good"
        ELSE IF windSpeed <= maxWindSpeed THEN "caution"
        ELSE "bad"
      evalCloudiness(cloudiness, maxCloudiness) ==
        IF cloudiness * 10 <= maxCloudiness * 6 THEN "good"
        ELSE IF cloudiness <= maxCloudiness THEN "caution"
        ELSE "bad"
      evalRain(rain, maxRain) ==
        IF rain = 0 THEN "good"
        ELSE IF rain * 2 <= maxRain THEN "caution"
        ELSE "bad"
      windEval == evalWind(hour.windSpeed, th.maxWindSpeed)
      rainEval == evalRain(hour.rain, th.maxRain)
  IN  IF activityType = "kayaking" \/ activityType = "sup"
        THEN IF windEval = "bad" THEN "bad"
             ELSE IF windEval = "caution"
               THEN IF rainEval = "bad" THEN "bad" ELSE "caution"
             ELSE IF rainEval = "bad" THEN "caution" ELSE "good"
      ELSE IF activityType = "snorkeling"
        THEN IF windEval = "bad" THEN "bad"
             ELSE IF windEval = "caution"
               THEN IF rainEval = "bad" THEN "bad" ELSE "caution"
             ELSE IF rainEval = "bad" THEN "caution"
             ELSE IF evalCloudiness(hour.cloudiness, th.maxCloudiness) = "bad"
               THEN "caution"
             ELSE "good"
      ELSE IF activityType = "fishing"
        THEN IF windEval = "bad" THEN "caution"
             ELSE IF windEval = "caution" THEN "caution"
             ELSE IF rainEval = "bad" THEN "caution" ELSE "good"
      ELSE "good"

TideTypes == {"high", "low"}

\* Tide times relative to the evaluation instant, in minutes.
TideOffsets == {0 - 180, 0 - 179, 0, 29, 30, 120, 121, 300}

TideEvents == [type : TideTypes, time : TideOffsets]

\* A tide schedule as the providers deliver it: chronologically sorted,
\* consecutive events more than 60 minutes apart.
IsSchedule(s) == \A i \in 1..(Len(s) - 1) : s[i + 1].time - s[i].time > 60

TideLists ==
  {s \in UNION {[1..n -> TideEvents] : n \in 0..MaxTides} : IsSchedule(s)}

WindBoundaries(m) == {0, (m * 7) \div 10, (m * 7) \div 10 + 1, m, m + 1}
CloudBoundaries(m) == {(m * 6) \div 10, (m * 6) \div 10 + 1, m, m + 1}
RainBoundaries(m) == {0, 1, m \div 2, m \div 2 + 1}

WindSamples(m) == {0, m, m + 1}
CloudSamples(m) == {0, m, m + 1}
RainSamples(m) == {0, 1, m \div 2 + 1}

ThresholdSamples == {regionThresholds[a] : a \in Activities}

CalmHour == [windSpeed |-> 0, cloudiness |-> 0, rain |-> 0]

HourlySamples == {<<>>, <<CalmHour, CalmHour, CalmHour, CalmHour>>}

NoEvals == [wind |-> "none", clouds |-> "none", rain |-> "none", tide |-> "none"]

Context ==
  [weather |-> weather, tides |-> tides, hourlyForecast |-> hourly,
   thresholds |-> thresholds]

----------------------------------------------------------------------------
(* Upstream answers of the tides source *)

HeightSamples == {200, 500, 800}

StepSamples == {30, 60, 61}

\* A dense series of the heights h, step minutes apart, delivered in
\* ascending or descending order of time.
DenseSeries(h, step, asc) ==
  [i \in 1..Len(h) |->
     [dt |-> IF asc THEN (i - 1) * step ELSE (Len(h) - i) * step, height |-> h[i]]]

NoUpstream == [kind |-> "none", body |-> EmptyBody]

\* The parts of the state a specification does not use.
RulesIdle ==
  /\ now = 0
  /\ weather = [windSpeed |-> 0, cloudiness |-> 0, rain |-> 0]
  /\ tides = <<>>
  /\ hourly = <<>>
  /\ thresholds = regionThresholds.snorkeling
  /\ activity = "none"
  /\ evals = NoEvals
  /\ rec = None

TidesIdle == upstream = NoUpstream /\ tidesResult = <<>>

WeatherIdle == wUpstream = NoWeatherUpstream /\ weatherResult = <<>>

ServiceIdle == statusResp = <<>>

HandlerIdle ==
  /\ cache = [k \in RawRegionIds |-> <<>>]
  /\ pending = [c \in Clients |-> NoRequest]
  /\ reply = [c \in Clients |-> <<>>]
  /\ orchestrations = 0
  /\ callStarted = [c \in Clients |-> 0]
  /\ entryStarted = [k \in RawRegionIds |-> 0]

TimingIdle == elapsed = 0 /\ wDelay = 0 /\ tDelay = 0

WindowIdle == windowArgs = [startHours |-> 0, maxHours |-> 8] /\ windowResult = <<>>

ClientIdle ==
  /\ selectedRegion = DEFAULT_REGION
  /\ appData = <<>>
  /\ isLoading = TRUE
  /\ appError = <<>>
  /\ isUsingMockData = FALSE
  /\ inFlight = {}
  /\ fetchesStarted = 0
  /\ hourStatus = "none"

----------------------------------------------------------------------------
(* SpecTides: fetchTides on a dense height series without explicit extrema *)

InitTides ==
  /\ RulesIdle
  /\ \E n \in 1..MaxSamples, step \in StepSamples, asc \in BOOLEAN :
       \E h \in [1..n -> HeightSamples] :
         upstream = [kind |-> "ok",
                     body |-> [EmptyBody EXCEPT !.heights = DenseSeries(h, step, asc)]]
  /\ tidesResult = <<>>
  /\ WeatherIdle
  /\ ServiceIdle
  /\ HandlerIdle
  /\ TimingIdle
  /\ WindowIdle
  /\ ClientIdle

FetchTides ==
  /\ tidesResult = <<>>
  /\ upstream.kind # "none"
  /\ \E mock \in MocksConsumed(upstream, now) :
       tidesResult' = <<fetchTides(upstream, mock)>>
  /\ UNCHANGED upstream
  /\ UNCHANGED <<rulesVars, weatherVars, serviceVars, handlerVars, timingVars, windowVars, clientVars>>

NextTides == FetchTides

SpecTides == InitTides /\ [][NextTides]_vars

----------------------------------------------------------------------------
(* SpecStatus: getOceanStatus over the answers of the two upstream         *)
(* sources.  The two fetches run concurrently under Promise.all; the       *)
(* response is assembled when both have settled.                           *)

ExtremesBody ==
  [EmptyBody EXCEPT
     !.extremes = <<[type |-> "High", height |-> 800, dt |-> 0 - 60],
                    [type |-> "Low", height |-> 200, dt |-> 300]>>,
     !.heights = <<[dt |-> 0, height |-> 755], [dt |-> 95, height |-> 600]>>]

\* Two extremes within the last three hours, 179 minutes apart.
RecentExtremesBody ==
  [EmptyBody EXCEPT
     !.extremes = <<[type |-> "High", height |-> 800, dt |-> 0 - 179],
                    [type |-> "Low", height |-> 200, dt |-> 0],
                    [type |-> "High", height |-> 800, dt |-> 300]>>]

\* Height series without extremes: samples exactly 30 and 31 minutes from
\* a forecast hour, two samples equally far from one, in either order.
HeightSeries ==
  {<<[dt |-> 30, height |-> 455], [dt |-> 90, height |-> 604], [dt |-> 200, height |-> 700]>>,
   <<[dt |-> 90, height |-> 604], [dt |-> 30, height |-> 455]>>,
   <<[dt |-> 31, height |-> 455]>>}

TidesUpstreams ==
  {[kind |-> k, body |-> EmptyBody] : k \in {"nokey", "throw", "non2xx", "error", "ok"}}
    \cup {[kind |-> "ok", body |-> [EmptyBody EXCEPT !.parses = FALSE]],
          [kind |-> "ok", body |-> ExtremesBody],
          [kind |-> "ok", body |-> RecentExtremesBody]}
    \cup {[kind |-> "ok", body |-> [EmptyBody EXCEPT !.heights = h]] : h \in HeightSeries}

CurrentSamples ==
  {[wind_speed |-> w, clouds |-> 20, rain |-> Undefined, dt |-> 0] : w \in {0, 300, 1300}}
    \cup {[wind_speed |-> Undefined, clouds |-> 20, rain |-> Undefined, dt |-> 0],
          [wind_speed |-> 300, clouds |-> 20, rain |-> 10, dt |-> Undefined],
          [wind_speed |-> 300, clouds |-> 120, rain |-> 10, dt |-> 0]}

HourlyBodies ==
  {<<>>,
   <<[dt |-> 0, wind_speed |-> 300, clouds |-> 30, rain |-> Undefined],
     [dt |-> 60, wind_speed |-> 350, clouds |-> 30, rain |-> 10]>>,
   <<[dt |-> 60, wind_speed |-> 1300, clouds |-> Undefined, rain |-> 10],
     [dt |-> 120, wind_speed |-> 350, clouds |-> 30, rain |-> 10]>>,
   <<[dt |-> 61, wind_speed |-> 1300, clouds |-> 30, rain |-> 10]>>,
   <<[dt |-> 0, wind_speed |-> 0, clouds |-> 30, rain |-> 10]>>}

WeatherBodies ==
  {[NoWeatherBody EXCEPT !.parses = FALSE], NoWeatherBody}
    \cup {[parses |-> TRUE, current |-> <<c>>, hourly |-> h] :
            c \in CurrentSamples, h \in HourlyBodies}

WeatherUpstreams ==
  {[kind |-> k, body |-> NoWeatherBody] : k \in {"nokey", "throw", "timeout", "non2xx"}}
    \cup {[kind |-> "ok", body |-> b] : b \in WeatherBodies}

InitStatus ==
  /\ RulesIdle
  /\ upstream \in TidesUpstreams
  /\ tidesResult = <<>>
  /\ wUpstream \in WeatherUpstreams
  /\ weatherResult = <<>>
  /\ ServiceIdle
  /\ HandlerIdle
  /\ TimingIdle
  /\ WindowIdle
  /\ ClientIdle

FetchWeather ==
  /\ weatherResult = <<>>
  /\ wUpstream.kind # "none"
  /\ \E mock \in WeatherMocksConsumed(wUpstream, now) :
       weatherResult' = <<fetchWeather(wUpstream, mock)>>
  /\ UNCHANGED wUpstream
  /\ UNCHANGED <<rulesVars, tidesVars, serviceVars, handlerVars, timingVars, windowVars, clientVars>>

Assemble ==
  /\ weatherResult # <<>>
  /\ tidesResult # <<>>
  /\ statusResp = <<>>
  /\ statusResp' = <<getOceanStatus(bayahibeConfig, weatherResult[1], tidesResult[1], now)>>
  /\ UNCHANGED <<rulesVars, tidesVars, weatherVars, handlerVars, timingVars, windowVars, clientVars>>

NextStatus == FetchWeather \/ FetchTides \/ Assemble

SpecStatus == InitStatus /\ [][NextStatus]_vars

----------------------------------------------------------------------------
(* SpecTimeout: one orchestration call whose upstreams answer after a      *)
(* delay or never.  Times are in seconds.  The weather fetch is given an   *)
(* AbortController armed for 15 seconds; the tides fetch is awaited        *)
(* without one.                                                            *)

\* setTimeout(() => controller.abort(), 15000)
FETCH_TIMEOUT == 15

\* The delay of an upstream that never answers.
Never == 0 - 1

DelaySamples == {0, FETCH_TIMEOUT, FETCH_TIMEOUT + 1, Never}

TimedWeatherUpstreams ==
  {[kind |-> "nokey", body |-> NoWeatherBody],
   [kind |-> "ok",
    body |-> [parses |-> TRUE, hourly |-> <<>>,
              current |-> <<[wind_speed |-> 300, clouds |-> 20,
                             rain |-> Undefined, dt |-> 0]>>]]}

TimedTidesUpstreams ==
  {[kind |-> "nokey", body |-> EmptyBody],
   [kind |-> "ok", body |-> ExtremesBody]}

\* Variant: the abort is delivered one second late.
abortDueLate(e) == e >= FETCH_TIMEOUT + 1

\* The timer of the AbortController has run out e seconds after the call.
abortDue(e) == e >= FETCH_TIMEOUT

\* The instant at which a provider call gets its answer: without a key no
\* call is issued and the provider returns at once.
answerAt(up, delay) == IF up.kind = "nokey" THEN 0 ELSE delay

InitTimeout ==
  /\ RulesIdle
  /\ upstream \in TimedTidesUpstreams
  /\ tidesResult = <<>>
  /\ wUpstream \in TimedWeatherUpstreams
  /\ weatherResult = <<>>
  /\ ServiceIdle
  /\ HandlerIdle
  /\ elapsed = 0
  /\ wDelay \in DelaySamples
  /\ tDelay \in DelaySamples
  /\ WindowIdle
  /\ ClientIdle

\* fetch resolves (or rejects) and fetchWeather runs to its return.
WeatherAnswers ==
  /\ weatherResult = <<>>
  /\ elapsed = answerAt(wUpstream, wDelay)
  /\ weatherResult' = <<fetchWeather(wUpstream, getMockWeather(now, 0, 0))>>
  /\ UNCHANGED wUpstream
  /\ UNCHANGED <<rulesVars, tidesVars, serviceVars, handlerVars, timingVars, windowVars, clientVars>>

\* The timer aborts the pending fetch: fetch rejects with an AbortError and
\* the catch block falls back.
WeatherAborts ==
  /\ weatherResult = <<>>
  /\ wUpstream.kind # "nokey"
  /\ abortDue(elapsed)
  /\ weatherResult' =
       <<fetchWeather([kind |-> "timeout", body |-> NoWeatherBody],
                      getMockWeather(now, 0, 0))>>
  /\ UNCHANGED wUpstream
  /\ UNCHANGED <<rulesVars, tidesVars, serviceVars, handlerVars, timingVars, windowVars, clientVars>>

\* fetch resolves (or rejects) and fetchTides runs to its return.
TidesAnswers ==
  /\ tidesResult = <<>>
  /\ elapsed = answerAt(upstream, tDelay)
  /\ tidesResult' = <<fetchTides(upstream, getMockTides(now, TRUE, 0))>>
  /\ UNCHANGED upstream
  /\ UNCHANGED <<rulesVars, weatherVars, serviceVars, handlerVars, timingVars, windowVars, clientVars>>

\* A second passes, once everything due at this instant has happened.
TickSecond ==
  /\ elapsed < MaxElapsed
  /\ weatherResult = <<>> =>
       /\ elapsed # answerAt(wUpstream, wDelay)
       /\ wUpstream.kind = "nokey" \/ ~abortDue(elapsed)
  /\ tidesResult = <<>> => elapsed # answerAt(upstream, tDelay)
  /\ (weatherResult # <<>> /\ tidesResult # <<>>) => statusResp # <<>>
  /\ elapsed' = elapsed + 1
  /\ UNCHANGED <<wDelay, tDelay>>
  /\ UNCHANGED <<rulesVars, tidesVars, weatherVars, serviceVars, handlerVars, windowVars, clientVars>>

NextTimeout == WeatherAnswers \/ WeatherAborts \/ TidesAnswers \/ Assemble \/ TickSecond

SpecTimeout == InitTimeout /\ [][NextTimeout]_vars /\ WF_vars(NextTimeout)

----------------------------------------------------------------------------
(* SpecCache: clients calling handleStatusRequest while the clock          *)
(* advances.  Receive is the handler up to its await (or to its return     *)
(* when it answers without awaiting), Complete the rest of it.             *)

\* The provider outcomes of one orchestration call: both upstreams answer
\* with a complete payload, or the weather payload lacks wind_speed.
OrchestrationUpstreams ==
  {<<[kind |-> "ok",
      body |-> [parses |-> TRUE, hourly |-> <<>>,
                current |-> <<[wind_speed |-> w, clouds |-> 20,
                               rain |-> Undefined, dt |-> 0]>>]],
     [kind |-> "ok", body |-> ExtremesBody]>> : w \in {300, Undefined}}

TickSteps == {CACHE_TTL, CACHE_TTL + 1}

InitCache ==
  /\ RulesIdle
  /\ TidesIdle
  /\ WeatherIdle
  /\ ServiceIdle
  /\ HandlerIdle
  /\ TimingIdle
  /\ WindowIdle
  /\ ClientIdle

Receive(c, regionId) ==
  /\ pending[c].state = "idle"
  /\ orchestrations < MaxCalls
  /\ IF regionId = ""
       THEN /\ reply' = [reply EXCEPT ![c] =
                           Response(400, "", ErrorBody("Missing required parameter: region"))]
            /\ pending' = [pending EXCEPT ![c] = [state |-> "idle", regionId |-> regionId]]
            /\ UNCHANGED <<cache, orchestrations>>
       ELSE LET cached == getCached(cache, regionId, now)
            IN  /\ cache' = cached.cache
                /\ IF cached.result # <<>>
                     THEN /\ reply' = [reply EXCEPT ![c] = Response(200, "HIT", cached.result[1])]
                          /\ pending' = [pending EXCEPT ![c] =
                                           [state |-> "idle", regionId |-> regionId]]
                          /\ UNCHANGED orchestrations
                     ELSE IF getRegionConfig(regionId) = <<>>
                       THEN /\ reply' = [reply EXCEPT ![c] =
                                           Response(400, "", ErrorBody("Unknown region"))]
                            /\ pending' = [pending EXCEPT ![c] =
                                             [state |-> "idle", regionId |-> regionId]]
                            /\ UNCHANGED orchestrations
                     ELSE /\ reply' = [reply EXCEPT ![c] = <<>>]
                          /\ pending' = [pending EXCEPT ![c] =
                                           [state |-> "awaiting", regionId |-> regionId]]
                          /\ orchestrations' = orchestrations + 1
  /\ callStarted' = IF pending'[c].state = "awaiting"
                      THEN [callStarted EXCEPT ![c] = now] ELSE callStarted
  /\ UNCHANGED entryStarted
  /\ UNCHANGED <<now, weather, tides, hourly, thresholds, activity, evals, rec>>
  /\ UNCHANGED <<tidesVars, weatherVars, serviceVars, timingVars, windowVars, clientVars>>

Complete(c) ==
  /\ pending[c].state = "awaiting"
  /\ \E ups \in OrchestrationUpstreams :
       LET regionId == pending[c].regionId
           status == orchestrate(getRegionConfig(regionId)[1], ups, now)
       IN  IF status.outcome = "resolved"
             THEN /\ cache' = setCache(cache, regionId, status, now)
                  /\ reply' = [reply EXCEPT ![c] = Response(200, "MISS", status)]
                  /\ entryStarted' = [entryStarted EXCEPT ![regionId] = callStarted[c]]
             ELSE /\ reply' = [reply EXCEPT ![c] =
                                 Response(500, "", ErrorBody("Internal server error"))]
                  /\ UNCHANGED <<cache, entryStarted>>
  /\ pending' = [pending EXCEPT ![c].state = "idle"]
  /\ UNCHANGED <<orchestrations, callStarted>>
  /\ UNCHANGED <<now, weather, tides, hourly, thresholds, activity, evals, rec>>
  /\ UNCHANGED <<tidesVars, weatherVars, serviceVars, timingVars, windowVars, clientVars>>

ReceiveRequest == \E c \in Clients, regionId \in RawRegionIds : Receive(c, regionId)

CompleteRequest == \E c \in Clients : Complete(c)

Tick ==
  /\ \E d \in TickSteps :
       /\ now + d <= MaxClock
       /\ now' = now + d
  /\ UNCHANGED <<weather, tides, hourly, thresholds, activity, evals, rec>>
  /\ UNCHANGED <<tidesVars, weatherVars, serviceVars, handlerVars, timingVars, windowVars, clientVars>>

NextCache == ReceiveRequest \/ CompleteRequest \/ Tick

SpecCache == InitCache /\ [][NextCache]_vars

----------------------------------------------------------------------------
(* SpecDual: the dual-format handler of api/status.ts, which keeps a cache *)
(* Map of its own.  A call comes as a Web API Request, as a Vercel request *)
(* object with its response object, or as a request object alone.          *)

\* "webapi": reqOrRequest instanceof Request; "vercel": a request object
\* and res; "bare": a request object and no res.
Formats == {"webapi", "vercel", "bare"}

\* One of the two branches of
\* if (isWebAPIFormat && reqOrRequest instanceof Request) ... else if (res)
\* runs and returns.
Responds(format) == format # "bare"

\* The value of status when getOceanStatus rejected and the catch block
\* did not return: undefined.
NoStatus == [outcome |-> "undefined"]

\* The handler returned without sending anything.
NoResponse == Response(0, "", ErrorBody("none"))

NoDualRequest == [state |-> "idle", regionId |-> "", format |-> "webapi"]

InitDual ==
  /\ RulesIdle
  /\ TidesIdle
  /\ WeatherIdle
  /\ ServiceIdle
  /\ cache = [k \in RawRegionIds |-> <<>>]
  /\ pending = [c \in Clients |-> NoDualRequest]
  /\ reply = [c \in Clients |-> <<>>]
  /\ orchestrations = 0
  /\ callStarted = [c \in Clients |-> 0]
  /\ entryStarted = [k \in RawRegionIds |-> 0]
  /\ TimingIdle
  /\ WindowIdle
  /\ ClientIdle

\* The handler up to its await, or to its return when it answers before.
\* The region id "" stands for the null of a missing parameter.
ReceiveDual(c, regionId, format) ==
  /\ pending[c].state = "idle"
  /\ orchestrations < MaxCalls
  /\ LET done == [state |-> "idle", regionId |-> regionId, format |-> format]
         cached == getCached(cache, regionId, now)
         hit == cached.result # <<>> /\ cached.result[1] # NoStatus
     IN  IF regionId = "" /\ Responds(format)
           THEN /\ reply' = [reply EXCEPT ![c] =
                               Response(400, "", ErrorBody("Missing required parameter: region"))]
                /\ pending' = [pending EXCEPT ![c] = done]
                /\ UNCHANGED <<cache, orchestrations>>
         ELSE /\ cache' = cached.cache
              /\ IF hit /\ Responds(format)
                   THEN /\ reply' = [reply EXCEPT ![c] = Response(200, "HIT", cached.result[1])]
                        /\ pending' = [pending EXCEPT ![c] = done]
                        /\ UNCHANGED orchestrations
                   ELSE IF getRegionConfig(regionId) = <<>> /\ Responds(format)
                     THEN /\ reply' = [reply EXCEPT ![c] =
                                         Response(400, "", ErrorBody("Unknown region"))]
                          /\ pending' = [pending EXCEPT ![c] = done]
                          /\ UNCHANGED orchestrations
                   ELSE /\ reply' = [reply EXCEPT ![c] = <<>>]
                        /\ pending' = [pending EXCEPT ![c] = [done EXCEPT !.state = "awaiting"]]
                        /\ orchestrations' = orchestrations + 1
  /\ UNCHANGED <<callStarted, entryStarted>>
  /\ UNCHANGED <<now, weather, tides, hourly, thresholds, activity, evals, rec>>
  /\ UNCHANGED <<tidesVars, weatherVars, serviceVars, timingVars, windowVars, clientVars>>

\* The handler from the settling of getOceanStatus to its return.  Called
\* with an undefined regionConfig, getOceanStatus rejects.
CompleteDual(c) ==
  /\ pending[c].state = "awaiting"
  /\ \E ups \in OrchestrationUpstreams :
       LET regionId == pending[c].regionId
           format == pending[c].format
           regionConfig == getRegionConfig(regionId)
           settled == IF regionConfig = <<>> THEN Rejected
                      ELSE orchestrate(regionConfig[1], ups, now)
           status == IF settled.outcome = "resolved" THEN settled ELSE NoStatus
       IN  IF settled.outcome # "resolved" /\ Responds(format)
             THEN /\ reply' = [reply EXCEPT ![c] =
                                 Response(500, "", ErrorBody("Failed to fetch ocean status"))]
                  /\ UNCHANGED cache
             ELSE /\ cache' = setCache(cache, regionId, status, now)
                  /\ reply' = [reply EXCEPT ![c] =
                                 IF Responds(format) THEN Response(200, "MISS", status)
                                 ELSE NoResponse]
  /\ pending' = [pending EXCEPT ![c].state = "idle"]
  /\ UNCHANGED <<orchestrations, callStarted, entryStarted>>
  /\ UNCHANGED <<now, weather, tides, hourly, thresholds, activity, evals, rec>>
  /\ UNCHANGED <<tidesVars, weatherVars, serviceVars, timingVars, windowVars, clientVars>>

ReceiveDualRequest ==
  \E c \in Clients, regionId \in RawRegionIds, format \in Formats :
    ReceiveDual(c, regionId, format)

CompleteDualRequest == \E c \in Clients : CompleteDual(c)

NextDual == ReceiveDualRequest \/ CompleteDualRequest \/ Tick

SpecDual == InitDual /\ [][NextDual]_vars

----------------------------------------------------------------------------
(* SpecWindow: calculateWindow applied to hourly forecasts made of calm,   *)
(* borderline and bad hours.                                               *)

\* Hours at the breakpoints of the thresholds th: all good, all caution,
\* and one evaluation bad.
HourKinds(th) ==
  {CalmHour,
   [windSpeed |-> th.maxWindSpeed, cloudiness |-> th.maxCloudiness, rain |-> th.maxRain \div 2],
   [windSpeed |-> th.maxWindSpeed + 1, cloudiness |-> 0, rain |-> 0],
   [windSpeed |-> 0, cloudiness |-> th.maxCloudiness + 1, rain |-> 0],
   [windSpeed |-> 0, cloudiness |-> 0, rain |-> th.maxRain \div 2 + 1]}

StartSamples == {0, 1, 2}

MaxHoursSamples == {3, 4, 8}

InitWindow ==
  /\ now = 0
  /\ weather = [windSpeed |-> 0, cloudiness |-> 0, rain |-> 0]
  /\ tides = <<>>
  /\ thresholds \in {regionThresholds.snorkeling, regionThresholds.fishing}
  /\ \E n \in 0..MaxForecast : hourly \in [1..n -> HourKinds(thresholds)]
  /\ activity = "none"
  /\ evals = NoEvals
  /\ rec = None
  /\ TidesIdle
  /\ WeatherIdle
  /\ ServiceIdle
  /\ HandlerIdle
  /\ TimingIdle
  /\ windowArgs \in [startHours : StartSamples, maxHours : MaxHoursSamples]
  /\ windowResult = <<>>
  /\ ClientIdle

CalculateWindow ==
  /\ windowResult = <<>>
  /\ windowResult' =
       <<calculateWindow(hourly, thresholds, windowArgs.startHours, windowArgs.maxHours)>>
  /\ UNCHANGED windowArgs
  /\ UNCHANGED <<rulesVars, tidesVars, weatherVars, serviceVars, handlerVars, timingVars, clientVars>>

NextWindow == CalculateWindow

SpecWindow == InitWindow /\ [][NextWindow]_vars

----------------------------------------------------------------------------
(* SpecClient: the App component's region selection and its fetches        *)

\* The values of the ?region= URL parameter tried at mount ("" is absent).
UrlParams == {"", "bayahibe-dominicus", "punta-cana", "atlantis"}

RegionIds == {REGIONS[i] : i \in DOMAIN REGIONS}

Fetch(id, regionId) == [id |-> id, region |-> regionId]

\* fetchRecommendations up to its await: the request for regionId leaves.
fetchRecommendations(regionId) ==
  /\ fetchesStarted < MaxFetches
  /\ isLoading' = TRUE
  /\ appError' = <<>>
  /\ fetchesStarted' = fetchesStarted + 1
  /\ inFlight' = inFlight \cup {Fetch(fetchesStarted + 1, regionId)}
  /\ UNCHANGED <<appData, isUsingMockData, hourStatus>>

\* After mount both effects have run: the fetch effect has started a fetch
\* for the default region, and a URL parameter naming another region has
\* selected it and so started a second fetch.
InitClient ==
  /\ now = 0
  /\ weather = [windSpeed |-> 0, cloudiness |-> 0, rain |-> 0]
  /\ tides = <<>>
  /\ hourly = <<>>
  /\ thresholds = regionThresholds.snorkeling
  /\ activity = "none"
  /\ evals = NoEvals
  /\ rec = None
  /\ TidesIdle
  /\ WeatherIdle
  /\ ServiceIdle
  /\ HandlerIdle
  /\ TimingIdle
  /\ WindowIdle
  /\ \E regionParam \in UrlParams :
       /\ selectedRegion = IF regionParam \in RegionIds THEN regionParam ELSE DEFAULT_REGION
       /\ inFlight = {Fetch(1, DEFAULT_REGION)} \cup
                     IF selectedRegion # DEFAULT_REGION
                     THEN {Fetch(2, selectedRegion)} ELSE {}
       /\ fetchesStarted = Cardinality(inFlight)
  /\ appData = <<>>
  /\ isLoading = TRUE
  /\ appError = <<>>
  /\ isUsingMockData = FALSE
  /\ hourStatus = "none"

\* RegionSelector's onRegionChange; the select is disabled while isLoading.
OnRegionChange(region) ==
  /\ ~isLoading
  /\ region # selectedRegion
  /\ selectedRegion' = region
  /\ fetchRecommendations(region)
  /\ UNCHANGED <<rulesVars, tidesVars, weatherVars, serviceVars, handlerVars, timingVars, windowVars>>

\* FavoritesMenu's onSelectRegion; the menu is not tied to isLoading.
OnSelectRegion(region) ==
  /\ region # selectedRegion
  /\ selectedRegion' = region
  /\ fetchRecommendations(region)
  /\ UNCHANGED <<rulesVars, tidesVars, weatherVars, serviceVars, handlerVars, timingVars, windowVars>>

\* Pull to refresh, enabled while data is shown without an error.
OnRefresh ==
  /\ ~isLoading
  /\ appError = <<>>
  /\ fetchRecommendations(selectedRegion)
  /\ UNCHANGED selectedRegion
  /\ UNCHANGED <<rulesVars, tidesVars, weatherVars, serviceVars, handlerVars, timingVars, windowVars>>

\* The awaited getActivityRecommendations resolves: the try branch and finally.
FetchResolves(f, fallbackUsed) ==
  /\ f \in inFlight
  /\ appData' = <<[region |-> f.region, fallbackUsed |-> fallbackUsed]>>
  /\ isUsingMockData' = fallbackUsed
  /\ isLoading' = FALSE
  /\ inFlight' = inFlight \ {f}
  /\ UNCHANGED <<selectedRegion, appError, fetchesStarted, hourStatus>>
  /\ UNCHANGED <<rulesVars, tidesVars, weatherVars, serviceVars, handlerVars, timingVars, windowVars>>

\* The awaited getActivityRecommendations rejects: the catch branch and finally.
FetchRejects(f) ==
  /\ f \in inFlight
  /\ appError' = <<"Failed to load recommendations">>
  /\ isLoading' = FALSE
  /\ inFlight' = inFlight \ {f}
  /\ UNCHANGED <<selectedRegion, appData, isUsingMockData, fetchesStarted, hourStatus>>
  /\ UNCHANGED <<rulesVars, tidesVars, weatherVars, serviceVars, handlerVars, timingVars, windowVars>>

RegionChanged == \E region \in RegionIds : OnRegionChange(region)

FavoriteSelected == \E region \in RegionIds : OnSelectRegion(region)

FetchResolved == \E f \in inFlight : \E fallbackUsed \in BOOLEAN : FetchResolves(f, fallbackUsed)

FetchRejected == \E f \in inFlight : FetchRejects(f)

NextClient == RegionChanged \/ FavoriteSelected \/ OnRefresh \/ FetchResolved \/ FetchRejected

SpecClient == InitClient /\ [][NextClient]_vars

----------------------------------------------------------------------------
(* SpecPrimitives: the three weather primitives applied to inputs at and   *)
(* around their breakpoints.                                               *)

InitPrimitives ==
  /\ now = 0
  /\ thresholds \in ThresholdSamples
  /\ weather \in [windSpeed : WindBoundaries(thresholds.maxWindSpeed),
                  cloudiness : CloudBoundaries(thresholds.maxCloudiness),
                  rain : RainBoundaries(thresholds.maxRain)]
  /\ tides = <<>>
  /\ hourly = <<>>
  /\ activity = "none"
  /\ evals = NoEvals
  /\ rec = None
  /\ TidesIdle
  /\ WeatherIdle
  /\ ServiceIdle
  /\ HandlerIdle
  /\ TimingIdle
  /\ WindowIdle
  /\ ClientIdle

EvalWind ==
  /\ evals' = [evals EXCEPT !.wind = evaluateWind(weather.windSpeed, thresholds.maxWindSpeed)]
  /\ UNCHANGED <<now, weather, tides, hourly, thresholds, activity, rec>>
  /\ UNCHANGED <<tidesVars, weatherVars, serviceVars, handlerVars, timingVars, windowVars, clientVars>>

EvalCloudiness ==
  /\ evals' = [evals EXCEPT !.clouds = evaluateCloudiness(weather.cloudiness, thresholds.maxCloudiness)]
  /\ UNCHANGED <<now, weather, tides, hourly, thresholds, activity, rec>>
  /\ UNCHANGED <<tidesVars, weatherVars, serviceVars, handlerVars, timingVars, windowVars, clientVars>>

EvalRain ==
  /\ evals' = [evals EXCEPT !.rain = evaluateRain(weather.rain, thresholds.maxRain)]
  /\ UNCHANGED <<now, weather, tides, hourly, thresholds, activity, rec>>
  /\ UNCHANGED <<tidesVars, weatherVars, serviceVars, handlerVars, timingVars, windowVars, clientVars>>

NextPrimitives == EvalWind \/ EvalCloudiness \/ EvalRain

SpecPrimitives == InitPrimitives /\ [][NextPrimitives]_vars

----------------------------------------------------------------------------
(* SpecRules: each activity evaluator applied to a rule context.           *)

InitRules ==
  /\ now = 0
  /\ thresholds \in ThresholdSamples
  /\ weather \in [windSpeed : WindSamples(thresholds.maxWindSpeed),
                  cloudiness : CloudSamples(thresholds.maxCloudiness),
                  rain : RainSamples(thresholds.maxRain)]
  /\ tides \in TideLists
  /\ hourly \in HourlySamples
  /\ activity = "none"
  /\ evals = NoEvals
  /\ rec = None
  /\ TidesIdle
  /\ WeatherIdle
  /\ ServiceIdle
  /\ HandlerIdle
  /\ TimingIdle
  /\ WindowIdle
  /\ ClientIdle

Evaluate(a) ==
  /\ activity = "none"
  /\ activity' = a
  /\ evals' = primitiveEvals(Context, now)
  /\ rec' = evaluate(a, Context, now)
  /\ UNCHANGED <<now, weather, tides, hourly, thresholds>>
  /\ UNCHANGED <<tidesVars, weatherVars, serviceVars, handlerVars, timingVars, windowVars, clientVars>>

EvalSnorkeling == Evaluate("snorkeling")
EvalKayaking == Evaluate("kayaking")
EvalSUP == Evaluate("sup")
EvalFishing == Evaluate("fishing")

NextRules == EvalSnorkeling \/ EvalKayaking \/ EvalSUP \/ EvalFishing

SpecRules == InitRules /\ [][NextRules]_vars

----------------------------------------------------------------------------
(* SpecHourly: a backend evaluator and the client's hourly rule applied to *)
(* the same wind, cloudiness and rain.                                     *)

\* No tide event, the preferred tide of either kind active, or far away.
HourlyTideLists ==
  {<<>>} \cup {<<[type |-> ty, time |-> t]>> : ty \in TideTypes, t \in {0, 300}}

InitHourly ==
  /\ now = 0
  /\ thresholds \in ThresholdSamples
  /\ weather \in [windSpeed : WindBoundaries(thresholds.maxWindSpeed),
                  cloudiness : CloudBoundaries(thresholds.maxCloudiness),
                  rain : RainBoundaries(thresholds.maxRain)]
  /\ tides \in HourlyTideLists
  /\ hourly = <<>>
  /\ activity = "none"
  /\ evals = NoEvals
  /\ rec = None
  /\ TidesIdle
  /\ WeatherIdle
  /\ ServiceIdle
  /\ HandlerIdle
  /\ TimingIdle
  /\ WindowIdle
  /\ ClientIdle

\* The backend evaluator of the activity whose thresholds are in use.
EvaluateBackend ==
  \E a \in Activities :
    /\ thresholds = regionThresholds[a]
    /\ Evaluate(a)

\* The chart rates the same values for the activity the backend evaluated.
StatusForHour ==
  /\ activity # "none"
  /\ hourStatus = "none"
  /\ hourStatus' = getActivityStatusForHour(weather, activity)
  /\ UNCHANGED <<selectedRegion, appData, isLoading, appError, isUsingMockData,
                 inFlight, fetchesStarted>>
  /\ UNCHANGED <<rulesVars, tidesVars, weatherVars, serviceVars, handlerVars,
                 timingVars, windowVars>>

NextHourly == EvaluateBackend \/ StatusForHour

SpecHourly == InitHourly /\ [][NextHourly]_vars

----------------------------------------------------------------------------
(* Properties of the rule primitives (SpecPrimitives) *)

C6_RainTiers ==
  LET r == weather.rain
      m == thresholds.maxRain
  IN  evals.rain # "none" =>
        /\ (evals.rain = "good") <=> (r = 0)
        /\ (evals.rain = "caution") <=> (0 < r /\ r * 2 <= m)
        /\ (evals.rain = "bad") <=> (r * 2 > m)

\* Rain just above half the maximum evaluated "bad".
C6_Witness ==
  /\ weather.rain * 2 > thresholds.maxRain
  /\ weather.rain <= thresholds.maxRain
  /\ evals.rain = "bad"

----------------------------------------------------------------------------
(* Properties of the activity evaluators (SpecRules) *)

\* C2: evaluateSnorkeling never returns "bad" when the wind evaluation of
\* the current snapshot is "good", whatever cloudiness, rain and tides are.
C2_SnorkelingNotBadWhenWindGood ==
  (activity = "snorkeling" /\ evals.wind = "good") => rec.status # "bad"

\* Calm wind, cloudiness over the maximum and heavy rain: the snorkeling
\* verdict is "caution".
C2_Witness ==
  /\ activity = "snorkeling"
  /\ evals.wind = "good"
  /\ evals.clouds = "bad"
  /\ evals.rain = "bad"
  /\ rec.status = "caution"

\* C3: evaluateFishing returns "bad" only when the tide evaluation and the
\* wind evaluation are both "bad"; a "good" tide with "bad" wind yields
\* "caution".
C3_FishingBadOnlyTideAndWind ==
  activity = "fishing" =>
    /\ rec.status = "bad" => (evals.tide = "bad" /\ evals.wind = "bad")
    /\ (evals.tide = "good" /\ evals.wind = "bad") => rec.status = "caution"

\* A high tide is active, the wind is over the maximum, fishing is "caution".
C3_Witness ==
  /\ activity = "fishing"
  /\ thresholds.preferredTide = "high"
  /\ evals.tide = "good"
  /\ evals.wind = "bad"
  /\ rec.status = "caution"

CloudAlternatives ==
  {0, 100} \cup UNION {CloudBoundaries(th.maxCloudiness) : th \in ThresholdSamples}

\* C4: for evaluateKayaking and evaluateSUP, a context that differs from the
\* evaluated one only in the cloudiness of the current snapshot gives the
\* same status and the same reason.
C4_CloudsDoNotInterfere ==
  activity \in {"kayaking", "sup"} =>
    \A c \in CloudAlternatives :
      LET other == [Context EXCEPT !.weather.cloudiness = c]
          r == evaluate(activity, other, now)
      IN  r.status = rec.status /\ r.reason = rec.reason

\* Kayaking evaluated "good" under a cloudiness over the maximum.
C4_Witness ==
  /\ activity = "kayaking"
  /\ evals.clouds = "bad"
  /\ rec.status = "good"

ActiveNow(tide) == tide.time <= now /\ tide.time > now - 3 * 60

\* C9 (as claimed): with preferred tide "low", wind and cloudiness "good",
\* no rain and some low-tide event active now, evaluateSnorkeling returns
\* "good", whatever other events the tide list holds.
C9_SnorkelingGoodAtActiveLowTide ==
  ( /\ activity = "snorkeling"
    /\ thresholds.preferredTide = "low"
    /\ evals.wind = "good"
    /\ evals.clouds = "good"
    /\ weather.rain = 0
    /\ \E i \in 1..Len(tides) : tides[i].type = "low" /\ ActiveNow(tides[i]) )
  => rec.status = "good"

\* The next high tide of the list lies d minutes ahead.
NextHighIn(d) ==
  \E i \in 1..Len(tides) :
    /\ tides[i].type = "high"
    /\ tides[i].time = now + d
    /\ \A j \in 1..Len(tides) :
         (tides[j].type = "high" /\ tides[j].time > now) => tides[j].time >= tides[i].time

FishingImminentCase(d) ==
  /\ activity = "fishing"
  /\ thresholds.preferredTide = "high"
  /\ NextHighIn(d)
  /\ \A i \in 1..Len(tides) : ~ActiveNow(tides[i])
  /\ evals.wind # "bad"
  /\ evals.rain # "bad"

\* The sampled offsets d with 0 < d <= 2h.
ImminentOffsets == {d \in TideOffsets : 0 < d /\ d <= 2 * 60}

ImminentHighTide ==
  "Excellent fishing conditions. High tide in N hours - peak feeding activity expected"

\* C10 (as claimed): next high tide d minutes ahead for any 0 < d <= 2h, no
\* tide active, wind and rain not "bad": evaluateFishing returns "good" with
\* the reason naming the imminent high tide and peak feeding.
C10_FishingImminentAnyOffset ==
  \A d \in ImminentOffsets :
    FishingImminentCase(d) =>
      rec.status = "good" /\ rec.reason.tpl = ImminentHighTide

\* C10 (amended): the status is "good" for every 0 < d <= 2h; the reason is
\* the imminent-high-tide template, with N the offset rounded to whole
\* hours, when d is at least 30 minutes, and the generic favorable-tide
\* reason when d is under 30 minutes (N rounds to 0).
C10_FishingImminentRounded ==
  \A d \in ImminentOffsets :
    FishingImminentCase(d) =>
      /\ rec.status = "good"
      /\ d >= 30 => rec.reason = Reason(ImminentHighTide, <<IF d < 90 THEN 1 ELSE 2>>)
      /\ d < 30 => rec.reason = Reason("Good fishing conditions. Tide timing is favorable", <<>>)

\* High tide exactly 30 minutes ahead: "High tide in 1 hour".
C10_Witness ==
  /\ FishingImminentCase(30)
  /\ rec.status = "good"
  /\ rec.reason = Reason(ImminentHighTide, <<1>>)

----------------------------------------------------------------------------
(* Properties of the tides provider (SpecTides) *)

\* The extrema derived from the dense series, in chronological order, as
\* they enter the deduplication.
SortedCandidates == sortByTime(deriveExtrema(upstream.body.heights))

\* The elements of s at the indices in K, in order.
RECURSIVE Pick(_, _, _)
Pick(s, K, i) ==
  IF i > Len(s) THEN <<>>
  ELSE (IF i \in K THEN <<s[i]>> ELSE <<>>) \o Pick(s, K, i + 1)

\* C8: the tide events fetchTides produces from a dense height series are
\* strictly increasing in time with no two of them within 60 minutes of each
\* other, and a sorted candidate is dropped exactly when it lies within 60
\* minutes of the previously kept one (the first of a cluster is kept).
C8_DerivedTidesSpaced ==
  tidesResult # <<>> =>
    LET data == tidesResult[1].data
        cand == SortedCandidates
    IN  /\ \A i, j \in 1..Len(data) : i < j => data[j].time - data[i].time > 60
        /\ \E K \in SUBSET (1..Len(cand)) :
             /\ data = Pick(cand, K, 1)
             /\ \A k \in 1..Len(cand) :
                  LET before == {j \in K : j < k}
                      last == CHOOSE j \in before : \A x \in before : x <= j
                  IN  k \in K <=>
                        (before = {} \/ cand[k].time - cand[last].time > 60)

\* A series delivered latest-first from which a candidate was dropped in the
\* middle of a cluster and a later one, over 60 minutes after the kept one,
\* was kept.
C8_Witness ==
  /\ tidesResult # <<>>
  /\ Len(upstream.body.heights) > 1
  /\ upstream.body.heights[1].dt > upstream.body.heights[2].dt
  /\ Len(tidesResult[1].data) >= 2
  /\ Len(SortedCandidates) > Len(tidesResult[1].data)
  /\ tidesResult[1].error = NoError

----------------------------------------------------------------------------
(* C1 *)

\* A failure in the sense of the claim: a thrown fetch, a timeout, a
\* non-2xx status or a 2xx body that is not the documented payload.
WeatherMalformed(body) ==
  \/ ~body.parses
  \/ body.current = <<>>
  \/ body.current[1].dt = Undefined
  \/ body.current[1].wind_speed = Undefined
  \/ body.current[1].clouds = Undefined

WeatherFailed == 
  \/ wUpstream.kind \in {"throw", "timeout", "non2xx"}
  \/ wUpstream.kind = "ok" /\ WeatherMalformed(wUpstream.body)

TidesFailed ==
  \/ upstream.kind \in {"throw", "non2xx", "error"}
  \/ upstream.kind = "ok" /\ ~upstream.body.parses

FailedProviders ==
  (IF WeatherFailed THEN <<"weather">> ELSE <<>>)
    \o (IF TidesFailed THEN <<"tides">> ELSE <<>>)

\* C1: whatever the two providers' outcomes, getOceanStatus returns a
\* response with the four recommendations, and its error list holds exactly
\* one ProviderError with fallbackUsed = true for each provider that failed
\* and none for a provider that succeeded.
C1_DegradesPerProvider ==
  statusResp # <<>> =>
    LET response == statusResp[1]
    IN  /\ response.outcome = "resolved"
        /\ \A a \in Activities :
             response.activities[a].status \in {"good", "caution", "bad"}
        /\ [i \in 1..Len(response.errors) |-> response.errors[i].provider]
             = FailedProviders
        /\ \A i \in 1..Len(response.errors) : response.errors[i].fallbackUsed

----------------------------------------------------------------------------
(* C7 *)

\* The step in which the handler invocation of client c stores its result.
Stored(c) ==
  /\ pending[c].state = "awaiting"
  /\ pending'[c].state = "idle"
  /\ reply'[c][1].status = 200

OtherKeysUntouched(k) == \A o \in RawRegionIds \ {k} : cache'[o] = cache[o]

\* C7: a get(k) right after put(k, v) returns v; a get(k) made more than
\* CACHE_TTL after the put of the entry returns absent and removes the
\* entry; neither operation touches the entry of another key.
C7_CacheTtl ==
  [][\A c \in Clients :
       /\ Stored(c) =>
            LET k == pending[c].regionId
                v == reply'[c][1].body
            IN  /\ getCached(cache', k, now').result = <<v>>
                /\ getCached(cache', k, now').cache = cache'
                /\ OtherKeysUntouched(k)
       /\ \A k \in RawRegionIds \ {""} :
            Receive(c, k) =>
              /\ OtherKeysUntouched(k)
              /\ (cache[k] # <<>> /\ now = cache[k][1].timestamp) =>
                   /\ reply'[c] = Response(200, "HIT", cache[k][1].data)
                   /\ cache'[k] = cache[k]
              /\ (cache[k] # <<>> /\ now - cache[k][1].timestamp > CACHE_TTL) =>
                   /\ getCached(cache, k, now).result = <<>>
                   /\ cache'[k] = <<>>
                   /\ pending'[c].state = "awaiting"]_vars

\* A client was served the stored response of "bayahibe" from the cache,
\* and a later get of the same key, made after the TTL, removed the entry.
C7_Witness ==
  \E c, d \in Clients :
    /\ c # d
    /\ reply[c] # <<>>
    /\ reply[c][1].xCache = "HIT"
    /\ pending[c].regionId = "bayahibe"
    /\ pending[d] = [state |-> "awaiting", regionId |-> "bayahibe"]
    /\ cache["bayahibe"] = <<>>
    /\ now - reply[c][1].body.timestamp > CACHE_TTL
    /\ cache["BAYAHIBE"] # <<>>

----------------------------------------------------------------------------
(* C11 *)

\* The rule context made of what a response returns.
FinalContext(response, a) ==
  [weather |-> response.conditions.weather,
   tides |-> tidesResult[1].data,
   hourlyForecast |-> response.hourlyForecast,
   thresholds |-> bayahibeConfig.thresholds[a]]

\* C11: in every response the status of each recommendation is the status
\* its evaluator gives on the conditions.weather snapshot and the hourly
\* forecast returned in that response, the backfilled wind included.
C11_EvaluatedOnFinalContext ==
  (statusResp # <<>> /\ statusResp[1].outcome = "resolved") =>
    \A a \in Activities :
      statusResp[1].activities[a].status
        = evaluate(a, FinalContext(statusResp[1], a), now).status

----------------------------------------------------------------------------
(* C12 *)

\* The weather data of the call is made by getMockWeather.
WeatherSynthesized == wUpstream.kind = "nokey" \/ weatherFetchThrows(wUpstream)

IsFallbackError(e, provider) == e.provider = provider /\ e.fallbackUsed

\* C12: whenever the weather data is synthesized, after a failed upstream
\* call or without a credential, the weather result carries a ProviderError
\* with fallbackUsed = true, and so does the error list of the response.
C12_SynthesizedWeatherTagged ==
  WeatherSynthesized =>
    /\ weatherResult # <<>> =>
         /\ weatherResult[1].error # <<>>
         /\ IsFallbackError(weatherResult[1].error[1], "weather")
    /\ (statusResp # <<>> /\ statusResp[1].outcome = "resolved") =>
         \E i \in 1..Len(statusResp[1].errors) :
           IsFallbackError(statusResp[1].errors[i], "weather")

----------------------------------------------------------------------------
(* C13 *)

----------------------------------------------------------------------------
(* C14 *)

TidesCallReturns == upstream.kind = "nokey" \/ tDelay # Never

WeatherUnanswered ==
  /\ wUpstream.kind # "nokey"
  /\ wDelay = Never \/ wDelay > FETCH_TIMEOUT

----------------------------------------------------------------------------
(* C15 *)

FuturePreferred == {i \in 1..Len(tides) : tides[i].type = thresholds.preferredTide /\ tides[i].time > now}

PreferredActive ==
  \E i \in 1..Len(tides) : tides[i].type = thresholds.preferredTide /\ ActiveNow(tides[i])

PreferredImminent == \E i \in FuturePreferred : tides[i].time - now <= 2 * 60

\* C15: for a non-null preferred tide type evaluateTide is "good" when an
\* event of that type occurred within the last 3 hours, otherwise "caution"
\* when one lies at most 2 hours ahead, otherwise "bad"; nextPreferredTime
\* is the time of the earliest future event of that type, if any.
C15_TideGoodCautionBad ==
  (activity # "none" /\ thresholds.preferredTide # "null") =>
    LET result == tideEvalOf(Context, now)
    IN  /\ evals.tide = result.status
        /\ result.status = IF PreferredActive THEN "good"
                           ELSE IF PreferredImminent THEN "caution"
                           ELSE "bad"
        /\ result.nextPreferredTime =
             IF FuturePreferred = {} THEN <<>>
             ELSE <<tides[CHOOSE i \in FuturePreferred :
                            \A j \in FuturePreferred : tides[i].time <= tides[j].time].time>>

----------------------------------------------------------------------------
(* C16 *)

\* The element of the tide list s with the extreme time among the indices I.
Earliest(s, I) == s[CHOOSE i \in I : \A j \in I : s[i].time <= s[j].time]

Latest(s, I) == s[CHOOSE i \in I : \A j \in I : s[i].time >= s[j].time]

\* C16: for a chronologically sorted tide schedule with events more than
\* 60 minutes apart, conditions.currentTide is the latest event at or
\* before now and less than 3 hours old, conditions.nextTide the earliest
\* event after now, each null when there is no such event.
C16_CurrentIsLatestNextIsEarliest ==
  (statusResp # <<>> /\ statusResp[1].outcome = "resolved"
     /\ IsSchedule(tidesResult[1].data)) =>
    LET data == tidesResult[1].data
        recent == {i \in 1..Len(data) : ActiveNow(data[i])}
        future == {i \in 1..Len(data) : data[i].time > now}
        conditions == statusResp[1].conditions
    IN  /\ conditions.currentTide = IF recent = {} THEN <<>> ELSE <<Latest(data, recent)>>
        /\ conditions.nextTide = IF future = {} THEN <<>> ELSE <<Earliest(data, future)>>

----------------------------------------------------------------------------
(* C17 *)

\* The condition under which the claim lets the snapshot change: provider
\* wind exactly 0, a first forecast point with positive wind, at most one
\* hour from now.
BackfillApplies ==
  /\ weatherResult[1].data.windSpeed = 0
  /\ Len(weatherResult[1].hourly) > 0
  /\ weatherResult[1].hourly[1].windSpeed # Undefined
  /\ weatherResult[1].hourly[1].windSpeed > 0
  /\ Abs(now - weatherResult[1].hourly[1].time) <= 60

ProvidedOr(forecastValue, snapshotValue) ==
  IF forecastValue # Undefined THEN forecastValue ELSE snapshotValue

----------------------------------------------------------------------------
(* C18 *)

\* The samples of the series closest in time to the forecast hour.
NearestSamples(hour, hourlyHeights) ==
  {i \in 1..Len(hourlyHeights) :
     \A j \in 1..Len(hourlyHeights) :
       Abs(hour.time - hourlyHeights[i].time) <= Abs(hour.time - hourlyHeights[j].time)}

\* The merged point is the forecast point plus, iff the nearest sample is
\* at most 30 minutes away, that sample's height (rounded to centimetres
\* when rounded is TRUE) as tideHeight.
PointMerged(point, hour, hourlyHeights, rounded) ==
  LET nearest == NearestSamples(hour, hourlyHeights)
      within == \E i \in nearest : Abs(hour.time - hourlyHeights[i].time) <= 30
  IN  /\ \A f \in DOMAIN hour : f \in DOMAIN point /\ point[f] = hour[f]
      /\ DOMAIN point \subseteq DOMAIN hour \cup {"tideHeight"}
      /\ "tideHeight" \in DOMAIN point <=> within
      /\ within =>
           \E i \in nearest :
             point.tideHeight = IF rounded THEN ToFixed2(hourlyHeights[i].height)
                                ELSE hourlyHeights[i].height

MergeMatches(rounded) ==
  (statusResp # <<>> /\ statusResp[1].outcome = "resolved") =>
    LET weatherHourly == weatherResult[1].hourly
        hourlyHeights == tidesResult[1].hourlyHeights
        merged == statusResp[1].hourlyForecast
    IN  /\ Len(merged) = Len(weatherHourly)
        /\ merged = mergeHourlyForecastLoop(weatherHourly, hourlyHeights)
        /\ IF Len(hourlyHeights) = 0 THEN merged = weatherHourly
           ELSE \A i \in 1..Len(merged) :
                  PointMerged(merged[i], weatherHourly[i], hourlyHeights, rounded)

----------------------------------------------------------------------------
(* C19 *)

NonBadHour(forecast) ==
  /\ evaluateWind(forecast.windSpeed, thresholds.maxWindSpeed) # "bad"
  /\ evaluateCloudiness(forecast.cloudiness, thresholds.maxCloudiness) # "bad"
  /\ evaluateRain(forecast.rain, thresholds.maxRain) # "bad"

\* The lengths n of runs of non-bad hours that begin at index start (0-based)
\* and respect maxHours and the forecast length.
NonBadRuns ==
  {n \in 0..MaxForecast :
     /\ n <= windowArgs.maxHours
     /\ windowArgs.startHours + n <= Len(hourly)
     /\ \A k \in 1..n : NonBadHour(hourly[windowArgs.startHours + k])}

\* No hour at all when the forecast ends before index start.
ConsecutiveNonBad ==
  IF NonBadRuns = {} THEN 0
  ELSE CHOOSE n \in NonBadRuns : \A m \in NonBadRuns : m <= n

\* C19: with N the number of consecutive non-bad forecast hours from index
\* start on, limited to maxHours and to the forecast length, calculateWindow
\* returns "Next N-(N+2) hours" iff N >= 4 and no window otherwise.
C19_WindowFromFourHours ==
  windowResult # <<>> =>
    windowResult[1] = IF ConsecutiveNonBad >= 4
                        THEN <<ConsecutiveNonBad, ConsecutiveNonBad + 2>>
                        ELSE <<>>

\* Four borderline hours from index 1 on, a bad hour in front of them:
\* "Next 4-6 hours".
C19_Witness ==
  /\ windowResult = <<<<4, 6>>>>
  /\ windowArgs.startHours = 1
  /\ Len(hourly) = 5
  /\ ~NonBadHour(hourly[1])
  /\ hourly[2].windSpeed = thresholds.maxWindSpeed

----------------------------------------------------------------------------
(* C20 *)

\* Another invocation for the key k is between its cache miss and its store.
InFlight(c, k) ==
  \E d \in Clients \ {c} : pending[d] = [state |-> "awaiting", regionId |-> k]

\* C20: there is no request coalescing.  An invocation that misses the
\* cache for a known region while another one for the same key is still
\* in flight starts its own orchestration call; each of two invocations in
\* flight for the same key can finish without the other; the one that stores answers
\* X-Cache MISS with its own result and leaves that result, stamped with
\* the instant of the store, as the single entry of the key.
C20_NoCoalescing ==
  /\ [](\A c \in Clients :
          (pending[c].state = "awaiting" /\ InFlight(c, pending[c].regionId))
            => ENABLED Complete(c))
  /\ [][\A c \in Clients :
          /\ \A k \in RawRegionIds \ {""} :
               (/\ Receive(c, k)
                /\ InFlight(c, k)
                /\ getCached(cache, k, now).result = <<>>
                /\ getRegionConfig(k) # <<>>)
                 => /\ pending'[c] = [state |-> "awaiting", regionId |-> k]
                    /\ orchestrations' = orchestrations + 1
                    /\ \A d \in Clients \ {c} : pending'[d] = pending[d]
          /\ Stored(c) =>
               /\ reply'[c][1].xCache = "MISS"
               /\ reply'[c][1].body.timestamp = now
               /\ cache'[pending[c].regionId] =
                    <<[data |-> reply'[c][1].body, timestamp |-> now]>>]_vars

\* Two invocations for "bayahibe" overlapped (the second one answered MISS
\* within the TTL of the first one's store), each made its own
\* orchestration call, and the cache holds the result stored last.
C20_Witness ==
  \E c, d \in Clients :
    /\ c # d
    /\ pending[c] = [state |-> "idle", regionId |-> "bayahibe"]
    /\ pending[d] = [state |-> "idle", regionId |-> "bayahibe"]
    /\ reply[c] # <<>> /\ reply[d] # <<>>
    /\ reply[c][1].xCache = "MISS" /\ reply[d][1].xCache = "MISS"
    /\ reply[c][1].body.timestamp = 0
    /\ reply[d][1].body.timestamp = CACHE_TTL
    /\ orchestrations = 2
    /\ cache["bayahibe"] = <<[data |-> reply[d][1].body, timestamp |-> CACHE_TTL]>>
    /\ cache["bayahibe"][1].data # reply[c][1].body

----------------------------------------------------------------------------
(* C21 *)

\* At instant t the map c holds an unexpired response stored under a key
\* that resolves to the region configuration of k.
FreshForRegion(c, k, t) ==
  \E o \in RawRegionIds \ {""} :
    /\ c[o] # <<>>
    /\ t - c[o][1].timestamp <= CACHE_TTL
    /\ getRegionConfig(o) # <<>>
    /\ getRegionConfig(o) = getRegionConfig(k)

\* C21: once a response of a region is stored, every request within the
\* TTL that resolves to the same region configuration, in whatever letter
\* case or alias it names the region, is answered X-Cache HIT and starts no
\* orchestration call.
C21_CacheKeyedByRegion ==
  [][\A c \in Clients : \A k \in RawRegionIds \ {""} :
       (Receive(c, k) /\ FreshForRegion(cache, k, now))
         => /\ reply'[c] # <<>>
            /\ reply'[c][1].xCache = "HIT"
            /\ orchestrations' = orchestrations]_vars

----------------------------------------------------------------------------
(* C22 *)

\* C22: wind is the only blocking factor of SUP.  A SUP recommendation is
\* "bad" only when the wind evaluation is "bad", so its "Too windy" reason
\* goes with a wind speed above the maximum.
C22_SupBlockedByWindOnly ==
  (activity = "sup" /\ rec.status = "bad")
    => /\ evals.wind = "bad"
       /\ rec.reason.tpl = "Too windy for safe SUP"
       /\ weather.windSpeed > thresholds.maxWindSpeed

----------------------------------------------------------------------------
(* C23 *)

\* C23: clouds are entirely ignored for kayaking and SUP.  A context that
\* differs from the evaluated one only in the cloudiness of the current
\* snapshot, or only in the cloudiness of one hour of the forecast, gives
\* the same recommendation: status, reason and window.
C23_CloudsEntirelyIgnored ==
  activity \in {"kayaking", "sup"} =>
    \A c \in CloudAlternatives :
      /\ evaluate(activity, [Context EXCEPT !.weather.cloudiness = c], now) = rec
      /\ \A i \in 1..Len(hourly) :
           evaluate(activity, [Context EXCEPT !.hourlyForecast[i].cloudiness = c], now) = rec

----------------------------------------------------------------------------
(* C24 *)

\* The wind speed, cloudiness and rain of a snapshot or hourly point, where
\* they are numbers, are not negative and the cloudiness is at most 100.
WithinRanges(point) ==
  /\ point.windSpeed # Undefined => point.windSpeed >= 0
  /\ point.rain # Undefined => point.rain >= 0
  /\ point.cloudiness # Undefined => point.cloudiness \in 0..100

\* C24: in every result of fetchWeather, normalized or synthesized, the
\* current snapshot and every hourly point have a wind speed, a cloudiness
\* and a rain that are not negative and a cloudiness within [0, 100].
C24_WeatherWithinRanges ==
  weatherResult # <<>> =>
    /\ WithinRanges(weatherResult[1].data)
    /\ \A i \in 1..Len(weatherResult[1].hourly) :
         WithinRanges(weatherResult[1].hourly[i])

----------------------------------------------------------------------------
(* C25 *)

\* C25: for each activity and every hour's wind, rain and cloudiness, the
\* client's getActivityStatusForHour returns the status the backend
\* evaluator of the activity returns for the same values under the same
\* thresholds, when the tide evaluation is "good".
C25_HourlyRuleMatchesBackend ==
  (hourStatus # "none" /\ thresholds = ACTIVITY_THRESHOLDS[activity] /\ evals.tide = "good")
    => hourStatus = rec.status

----------------------------------------------------------------------------
(* C26 *)

\* The entries of the map c a lookup at instant t can still return.
Live(c, t) ==
  [k \in RawRegionIds |->
     IF c[k] # <<>> /\ t - c[k][1].timestamp <= CACHE_TTL THEN c[k] ELSE <<>>]

CompleteResponse(d) ==
  /\ d.outcome = "resolved"
  /\ \A a \in Activities : d.activities[a].status \in {"good", "caution", "bad"}

\* The invocation of client c returns 200 with X-Cache MISS in this step.
AnswersMiss(c) ==
  /\ pending[c].state = "awaiting"
  /\ pending'[c].state = "idle"
  /\ reply'[c] # <<>>
  /\ reply'[c][1].status = 200
  /\ reply'[c][1].xCache = "MISS"

\* C26: every cache entry belongs to a key that resolves to a known region
\* configuration and holds a complete response of a successful
\* orchestration call; only an invocation that answers 200 creates or
\* changes what the cache can return (a 400 or 500 outcome does not); a
\* request for an unknown region is never answered X-Cache HIT.
C26_CacheHoldsOnlySuccesses ==
  /\ [](\A k \in RawRegionIds :
          cache[k] # <<>> =>
            /\ getRegionConfig(k) # <<>>
            /\ CompleteResponse(cache[k][1].data))
  /\ [](\A c \in Clients :
          (reply[c] # <<>> /\ reply[c][1].xCache = "HIT")
            => getRegionConfig(pending[c].regionId) # <<>>)
  /\ [][(now' = now /\ Live(cache', now) # Live(cache, now))
          => \E c \in Clients : AnswersMiss(c)]_vars

----------------------------------------------------------------------------
(* C27 *)

\* C27: cached data never goes backwards.  A put never replaces the entry
\* of a key with the response of an orchestration call that started
\* earlier than the call behind the entry it replaces.
C27_CacheNeverGoesBackwards ==
  [][\A c \in Clients :
       (Stored(c) /\ cache[pending[c].regionId] # <<>>)
         => callStarted[c] >= entryStarted[pending[c].regionId]]_vars

----------------------------------------------------------------------------
(* C28 *)

\* The recommendations are on screen: no spinner, no error, some data.
Displayed == ~isLoading /\ appError = <<>> /\ appData # <<>>

\* C28: a late response for a region that is no longer selected never
\* overwrites the data of the selected region; once every fetch has
\* completed the data on screen is the response for the selected region;
\* and isLoading is false only while no fetch is in flight.
C28_LateResponseNeverShown ==
  /\ []((inFlight = {} /\ Displayed) => appData[1].region = selectedRegion)
  /\ [](~isLoading => inFlight = {})
  /\ [][\A f \in inFlight :
          (f.region # selectedRegion /\ appData # <<>>
             /\ appData[1].region = selectedRegion /\ inFlight' = inFlight \ {f})
          => appData'[1].region = selectedRegion']_vars

----------------------------------------------------------------------------
(* C29 *)

\* The tide data of this call was synthesized by getMockTides.
Synthesized ==
  /\ tidesResult # <<>>
  /\ (upstream.kind = "nokey" \/ tidesFetchThrows(upstream))

\* The shortest distance between the call and a synthesized event: 5.5 hours.
MockLeadMinutes == 330

TidePreferring == {a \in Activities : bayahibeConfig.thresholds[a].preferredTide # "null"}

----------------------------------------------------------------------------
(* C30 *)

\* C30: for each of the four evaluators a "bad" recommendation never
\* carries a window.
C30_BadCarriesNoWindow ==
  (activity \in Activities /\ rec.status = "bad") => rec.window = <<>>

====
